---------------------------- MODULE Spec2Model ----------------------------
(***************************************************************************)
(* A model of the recipe manager: the retry/backoff helper and the error   *)
(* classifier of src/src/App.jsx, the CloudWatch log buffer (Logger), the  *)
(* App component's handlers and the toast queue.                           *)
(*                                                                         *)
(* src/src/App.jsx holds two versions of the component one after the       *)
(* other; the model follows the first one (lines 1-761), the one that has  *)
(* retryOperation, lastFailedOperation and the toasts.                     *)
(***************************************************************************)
EXTENDS Integers, Sequences, FiniteSets, Bags, TLC

(***************************************************************************)
(* The field names of the model's records.  TLC keeps the fields of a      *)
(* record in the order in which it first met their names, so they are met  *)
(* here, in alphabetical order, and every record below is written in that  *)
(* order: a record is then built in the form TLC keeps it in.             *)
(***************************************************************************)
RecordFields ==
    [app |-> 0, applied |-> 0, authMode |-> 0, call |-> 0,
     confirmPassword |-> 0, confirmationCode |-> 0, creds |-> 0,
     currentRetry |-> 0, db |-> 0, delay |-> 0, detail |-> 0,
     directions |-> 0, duration |-> 0,
     editingRecipe |-> 0, email |-> 0, error |-> 0, hasMessage |-> 0,
     id |-> 0, ingredients |-> 0, isLoading |-> 0, isNull |-> 0,
     issuedWithUser |-> 0, kind |-> 0, lastFailedOperation |-> 0,
     logs |-> 0, message |-> 0, name |-> 0, needsConfirmation |-> 0,
     newRecipe |-> 0, next |-> 0, nextRecipeId |-> 0, ok |-> 0,
     operation |-> 0, password |-> 0, pc |-> 0, prepTime |-> 0,
     recipe |-> 0, recipes |-> 0, response |-> 0, retryCount |-> 0,
     searchTerm |-> 0, session |-> 0, showCreateForm |-> 0, spawn |-> 0,
     task |-> 0, text |-> 0, title |-> 0, toast |-> 0, type |-> 0,
     user |-> 0, value |-> 0, viaRetry |-> 0]

VARIABLES
    \* ---- one call of retryOperation (App.jsx:103-116)
    rPc,            \* "enter" | "awaiting" | "waiting" | "returned" | "thrown"
    rCurrentRetry,  \* the currentRetry argument of the running frame
    rMaxRetries,    \* the maxRetries argument
    rStart,         \* the currentRetry argument of the outermost call
    rCalls,         \* how many times operation() was invoked
    rOutcomes,      \* what each invocation did, in order
    rDelays,        \* the delays waited with setTimeout, in order
    rResult,        \* what the outermost call returned or threw
    \* ---- one call of isRetryableError or getUserFriendlyError
    cCall,          \* the function called
    cError,         \* its error argument
    cOperation,     \* the operation argument of getUserFriendlyError
    cPc,            \* "called" | "returned"
    cRetryable,     \* what isRetryableError returned
    cFriendly,      \* what getUserFriendlyError returned
    \* ---- the Logger singleton (src/unnamed/part_000)
    isProduction,   \* IS_PRODUCTION, fixed by the build
    client,         \* this.client: "null" or "client"
    logStreamName,  \* this.logStreamName: "null" or "session"
    sequenceToken,  \* this.sequenceToken: "null" or "token"
    logBuffer,      \* this.logBuffer: the entries, each its timestamp
    flushInterval,  \* this.flushInterval: "null" or "interval"
    intervals,      \* the delays of the setInterval timers not yet cleared
    isInitialized,  \* this.isInitialized
    initPromise,    \* this.initPromise: "null" or "promise"
    awaitingSession,\* init() runs suspended at await fetchAuthSession()
    awaitingStream, \* init() runs suspended at await this.createLogStream()
    inFlight,       \* the batches of the PutLogEvents requests not yet settled
    now,            \* Date.now()
    logEvent,       \* the last thing that happened to the Logger
    \* ---- the App component (src/src/App.jsx:14-758)
    app,            \* the values of its useState hooks
    tasks,          \* its async functions suspended at an await
    appEvent,       \* the last thing that happened to the App
    \* ---- the backend the App talks to
    session,        \* the user Amplify holds a session for, or "null"
    db,             \* the recipes of that user, in the order list() gives
    nextRecipeId,   \* the id the next created recipe gets
    \* ---- the toast queue (src/src/Usetoast.js)
    toasts,         \* the toasts state of useToast
    toastIdCounter  \* the module's toastIdCounter

retryVars == <<rPc, rCurrentRetry, rMaxRetries, rStart, rCalls, rOutcomes,
               rDelays, rResult>>

classifierVars == <<cCall, cError, cOperation, cPc, cRetryable, cFriendly>>

loggerVars == <<isProduction, client, logStreamName, sequenceToken, logBuffer,
                flushInterval, intervals, isInitialized, initPromise,
                awaitingSession, awaitingStream, inFlight, now, logEvent>>

appVars == <<app, tasks, appEvent, session, db, nextRecipeId>>

toastVars == <<toasts, toastIdCounter>>

vars == <<retryVars, classifierVars, loggerVars, appVars, toastVars>>

nonRetryVars == <<classifierVars, loggerVars, appVars, toastVars>>

nonClassifierVars == <<retryVars, loggerVars, appVars, toastVars>>

nonLoggerVars == <<retryVars, classifierVars, appVars, toastVars>>

\* the App's handlers put toasts in the queue
nonAppVars == <<retryVars, classifierVars, loggerVars>>

(***************************************************************************)
(* Text.  A JavaScript string is a sequence of one-character strings, so   *)
(* that toLowerCase and includes are computed, not assumed.                *)
(***************************************************************************)
UpperCase == <<"A","B","C","D","E","F","G","H","I","J","K","L","M",
               "N","O","P","Q","R","S","T","U","V","W","X","Y","Z">>

LowerCase == <<"a","b","c","d","e","f","g","h","i","j","k","l","m",
               "n","o","p","q","r","s","t","u","v","w","x","y","z">>

toLowerCaseChar(c) ==
    IF \E i \in 1..Len(UpperCase) : UpperCase[i] = c
    THEN LowerCase[CHOOSE i \in 1..Len(UpperCase) : UpperCase[i] = c]
    ELSE c

toLowerCase(s) == [i \in 1..Len(s) |-> toLowerCaseChar(s[i])]

includes(s, sub) ==
    \E i \in 0..(Len(s) - Len(sub)) : SubSeq(s, i + 1, i + Len(sub)) = sub

(***************************************************************************)
(* Errors.  A thrown value is null/undefined, a value with no message, or  *)
(* an Error with a message.                                                *)
(***************************************************************************)
NullError == [hasMessage |-> FALSE, isNull |-> TRUE, message |-> <<>>]

NoMessageError == [hasMessage |-> FALSE, isNull |-> FALSE, message |-> <<>>]

ErrorWith(msg) == [hasMessage |-> TRUE, isNull |-> FALSE, message |-> msg]

MsgFailedToFetch ==
    <<"F","a","i","l","e","d"," ","t","o"," ","f","e","t","c","h">>

MsgNetworkError == <<"N","e","t","w","o","r","k"," ","E","r","r","o","r">>

MsgTimedOut == <<"E","T","I","M","E","D","O","U","T">>

MsgNotAuthorized ==
    <<"N","o","t","A","u","t","h","o","r","i","z","e","d",
      "E","x","c","e","p","t","i","o","n">>

MsgUnauthorized == <<"U","n","a","u","t","h","o","r","i","z","e","d">>

retryableMessages ==
    << <<"n","e","t","w","o","r","k">>,
       <<"t","i","m","e","o","u","t">>,
       <<"f","e","t","c","h">>,
       <<"c","o","n","n","e","c","t","i","o","n">>,
       <<"E","C","O","N","N","R","E","F","U","S","E","D">>,
       <<"E","T","I","M","E","D","O","U","T">>,
       <<"F","a","i","l","e","d"," ","t","o"," ","f","e","t","c","h">>,
       <<"N","e","t","w","o","r","k","E","r","r","o","r">> >>

\* mutant: the message is matched as it is written
isRetryableErrorCaseSensitive(error) ==
    IF error.isNull THEN FALSE
    ELSE LET errorMessage == IF error.hasMessage THEN error.message ELSE <<>>
         IN  \E k \in 1..Len(retryableMessages) :
                 includes(errorMessage, toLowerCase(retryableMessages[k]))

\* isRetryableError as the code computes it
isRetryableErrorComputed(error) ==
    IF error.isNull THEN FALSE
    ELSE LET errorMessage ==
                 IF error.hasMessage THEN toLowerCase(error.message) ELSE <<>>
         IN  \E k \in 1..Len(retryableMessages) :
                 includes(errorMessage, toLowerCase(retryableMessages[k]))

\* The errors that are thrown in the model; which of them are retryable is
\* computed once.
ThrownErrors ==
    {NullError, NoMessageError, ErrorWith(MsgFailedToFetch),
     ErrorWith(MsgNetworkError), ErrorWith(MsgTimedOut),
     ErrorWith(MsgNotAuthorized), ErrorWith(MsgUnauthorized)}

RetryableErrors ==
    {error \in ThrownErrors : isRetryableErrorComputed(error)}

isRetryableError(error) ==
    IF error \in ThrownErrors THEN error \in RetryableErrors
    ELSE isRetryableErrorComputed(error)

(***************************************************************************)
(* retryOperation, App.jsx:103-116.                                        *)
(***************************************************************************)
Pow2(n) == 2 ^ n

MathMin(a, b) == IF a <= b THEN a ELSE b

BaseDelayMs == 1000

MaxDelayMs == 5000

DefaultMaxRetries == 3

\* mutant: the delay is not capped
BackoffDelayUncapped(currentRetry) == BaseDelayMs * Pow2(currentRetry)

BackoffDelay(currentRetry) ==
    MathMin(BaseDelayMs * Pow2(currentRetry), MaxDelayMs)

\* mutant: one retry too many
ShouldRetryOffByOne(error, currentRetry, maxRetries) ==
    isRetryableError(error) /\ currentRetry <= maxRetries

\* mutant: every error is retried
ShouldRetryAnyError(error, currentRetry, maxRetries) ==
    currentRetry < maxRetries

ShouldRetry(error, currentRetry, maxRetries) ==
    isRetryableError(error) /\ currentRetry < maxRetries

\* What one frame of retryOperation does with the outcome of operation().
\* An outcome is [ok |-> TRUE, value |-> v] or [ok |-> FALSE, error |-> e].
RetryStep(outcome, currentRetry, maxRetries) ==
    IF outcome.ok
    THEN [kind |-> "return", value |-> outcome.value]
    ELSE IF ShouldRetry(outcome.error, currentRetry, maxRetries)
         THEN [delay |-> BackoffDelay(currentRetry), kind |-> "wait",
               next |-> currentRetry + 1]
         ELSE [error |-> outcome.error, kind |-> "throw"]

Returned(v) == [error |-> NullError, ok |-> TRUE, value |-> v]

Threw(e) == [error |-> e, ok |-> FALSE, value |-> 0]

(***************************************************************************)
(* One call of retryOperation on an operation whose invocations return or  *)
(* throw as the environment decides.                                       *)
(***************************************************************************)
MaxStartRetry == 5

MaxRetriesArg == 4

RetryErrors ==
    { ErrorWith(MsgFailedToFetch), ErrorWith(MsgTimedOut),
      ErrorWith(MsgNotAuthorized), NoMessageError, NullError }

RetryValues == {1, 2}

NoResult == [error |-> NullError, kind |-> "none", value |-> 0]

RetryInit ==
    /\ rPc = "enter"
    /\ rStart \in 0..MaxStartRetry
    /\ rCurrentRetry = rStart
    /\ rMaxRetries \in 0..MaxRetriesArg
    /\ rCalls = 0
    /\ rOutcomes = <<>>
    /\ rDelays = <<>>
    /\ rResult = NoResult

\* line 105: operation() is invoked and awaited
RetryInvoke ==
    /\ rPc = "enter"
    /\ rPc' = "awaiting"
    /\ rCalls' = rCalls + 1
    /\ UNCHANGED <<rCurrentRetry, rMaxRetries, rStart, rOutcomes, rDelays,
                   rResult>>
    /\ UNCHANGED nonRetryVars

\* lines 105-114: the awaited operation settles with `outcome`
RetrySettle(outcome) ==
    /\ rPc = "awaiting"
    /\ rOutcomes' = Append(rOutcomes, outcome)
    /\ LET step == RetryStep(outcome, rCurrentRetry, rMaxRetries)
       IN  CASE step.kind = "return" ->
                    /\ rPc' = "returned"
                    /\ rResult' = [error |-> NullError, kind |-> "return",
                                   value |-> step.value]
                    /\ UNCHANGED <<rCurrentRetry, rDelays>>
             [] step.kind = "throw" ->
                    /\ rPc' = "thrown"
                    /\ rResult' = [error |-> step.error, kind |-> "throw",
                                   value |-> 0]
                    /\ UNCHANGED <<rCurrentRetry, rDelays>>
             [] step.kind = "wait" ->
                    /\ rPc' = "waiting"
                    /\ rDelays' = Append(rDelays, step.delay)
                    /\ rCurrentRetry' = step.next
                    /\ UNCHANGED rResult
    /\ UNCHANGED <<rMaxRetries, rStart, rCalls>>
    /\ UNCHANGED nonRetryVars

OperationReturns == \E v \in RetryValues : RetrySettle(Returned(v))

OperationThrows == \E e \in RetryErrors : RetrySettle(Threw(e))

\* lines 111-112: the timer fires and retryOperation calls itself
RetryDelayElapsed ==
    /\ rPc = "waiting"
    /\ rPc' = "enter"
    /\ UNCHANGED <<rCurrentRetry, rMaxRetries, rStart, rCalls, rOutcomes,
                   rDelays, rResult>>
    /\ UNCHANGED nonRetryVars

(***************************************************************************)
(* The Logger, src/unnamed/part_000.  An entry is modelled by its          *)
(* timestamp; its message is never read by the Logger.                     *)
(***************************************************************************)
MAX_BUFFER_SIZE == 100

FlushThreshold == 10

\* Bounds of the model: requests outstanding at once, entries held at once
\* (buffered or in a request), init() runs suspended at once, clock values.
MaxInFlight == 2

MaxEntries == 102

MaxInits == 1

\* init() runs suspended at once where the claim is about repeated init()
MaxConcurrentInits == 2

MaxClock == 4

\* The entries the buffer holds where SpecLoggerBacklog starts.
InitialBacklog == 98

NoLogs == <<>>

LogEvent(name, logs) == [logs |-> logs, name |-> name]

\* The requests outstanding are a bag of batches: two of them may carry
\* equal batches, and nothing orders them.
OneRequest(batch) == SetToBag({batch})

RECURSIVE SumLen(_)
SumLen(batches) ==
    IF batches = EmptyBag THEN 0
    ELSE LET b == CHOOSE x \in BagToSet(batches) : TRUE
         IN  Len(b) + SumLen(batches (-) OneRequest(b))

EntriesHeld == Len(logBuffer) + SumLen(inFlight)

\* the constructor, lines 9-17
LoggerConstructed ==
    /\ client = "null"
    /\ logStreamName = "null"
    /\ sequenceToken = "null"
    /\ logBuffer = <<>>
    /\ flushInterval = "null"
    /\ intervals = <<>>
    /\ isInitialized = FALSE
    /\ initPromise = "null"
    /\ awaitingSession = 0
    /\ awaitingStream = 0
    /\ inFlight = EmptyBag
    /\ now = 0
    /\ logEvent = LogEvent("constructed", NoLogs)

LoggerInit ==
    /\ isProduction \in BOOLEAN
    /\ LoggerConstructed

\* flush(), line 97: whether flush() goes past its first line on buffer `buf`
FlushProceeds(buf) == client # "null" /\ isInitialized /\ Len(buf) # 0

\* flush(), lines 99-113, up to the await: the buffer it leaves and the
\* requests outstanding after it
BufferAfterFlush(buf) == IF FlushProceeds(buf) THEN <<>> ELSE buf

InFlightAfterFlush(buf) ==
    IF FlushProceeds(buf) THEN inFlight (+) OneRequest(buf) ELSE inFlight

\* the model's bound on outstanding requests allows flush() on `buf`
FlushWithinBound(buf) ==
    FlushProceeds(buf) => BagCardinality(inFlight) < MaxInFlight

\* mutant: the failed batch is put behind the entries added meanwhile
RebufferBehind(logsToSend, buffer) ==
    IF Len(buffer) < MAX_BUFFER_SIZE THEN buffer \o logsToSend ELSE buffer

\* mutant: a full buffer does not stop the failed batch from coming back
RebufferAlways(logsToSend, buffer) == logsToSend \o buffer

\* flush(), lines 118-122: the catch block
Rebuffer(logsToSend, buffer) ==
    IF Len(buffer) < MAX_BUFFER_SIZE THEN logsToSend \o buffer ELSE buffer

\* the period startPeriodicFlush gives to setInterval, line 128
FlushPeriodMs == 5000

\* mutant: startPeriodicFlush without its first line
startPeriodicFlushUnguarded(handle, timers) == Append(timers, FlushPeriodMs)

\* startPeriodicFlush(), lines 126-129: the timers running after it, with
\* the value of this.flushInterval before it
startPeriodicFlush(handle, timers) ==
    IF handle # "null" THEN timers ELSE Append(timers, FlushPeriodMs)

\* clearInterval(this.flushInterval), lines 62-65: the handle is the one of
\* the timer set last
clearFlushInterval(handle, timers) ==
    IF handle # "null" /\ timers # <<>>
    THEN SubSeq(timers, 1, Len(timers) - 1)
    ELSE timers

\* init(), lines 20-26: the calls that start nothing
InitReturnsEarly ==
    /\ initPromise # "null" \/ isInitialized \/ ~isProduction
    /\ logEvent' = LogEvent("initReturned", NoLogs)
    /\ UNCHANGED <<isProduction, client, logStreamName, sequenceToken,
                   logBuffer, flushInterval, intervals, isInitialized,
                   initPromise, awaitingSession, awaitingStream, inFlight, now>>
    /\ UNCHANGED nonLoggerVars

\* init(), lines 28-30: a run starts and suspends at fetchAuthSession()
InitStartsWithin(bound) ==
    /\ initPromise = "null" /\ ~isInitialized /\ isProduction
    /\ awaitingSession + awaitingStream < bound
    /\ initPromise' = "promise"
    /\ awaitingSession' = awaitingSession + 1
    /\ logEvent' = LogEvent("initStarted", NoLogs)
    /\ UNCHANGED <<isProduction, client, logStreamName, sequenceToken,
                   logBuffer, flushInterval, intervals, isInitialized,
                   awaitingStream, inFlight, now>>
    /\ UNCHANGED nonLoggerVars

InitStarts == InitStartsWithin(MaxInits)

\* init() called again while runs started before a cleanup() are still
\* suspended
InitStartsConcurrently == InitStartsWithin(MaxConcurrentInits)

\* init(), lines 30-35 and 50-55: no credentials, or fetchAuthSession() threw
InitSessionFails ==
    /\ awaitingSession > 0
    /\ awaitingSession' = awaitingSession - 1
    /\ initPromise' = "null"
    /\ logEvent' = LogEvent("initFailed", NoLogs)
    /\ UNCHANGED <<isProduction, client, logStreamName, sequenceToken,
                   logBuffer, flushInterval, intervals, isInitialized,
                   awaitingStream, inFlight, now>>
    /\ UNCHANGED nonLoggerVars

\* init(), lines 37-44, and createLogStream(), lines 82-88: the client is
\* made and the CreateLogStream request sent
InitSessionArrives ==
    /\ awaitingSession > 0
    /\ awaitingSession' = awaitingSession - 1
    /\ awaitingStream' = awaitingStream + 1
    /\ client' = "client"
    /\ logStreamName' = "session"
    /\ logEvent' = LogEvent("initSession", NoLogs)
    /\ UNCHANGED <<isProduction, sequenceToken, logBuffer, flushInterval,
                   intervals, isInitialized, initPromise, inFlight, now>>
    /\ UNCHANGED nonLoggerVars

\* createLogStream(), lines 88-93, answered or failed (the error is
\* swallowed), then init(), lines 45-49 and 53-55, with
\* startPeriodicFlush(), lines 127-128
InitStreamSettles ==
    /\ awaitingStream > 0
    /\ awaitingStream' = awaitingStream - 1
    /\ intervals' = startPeriodicFlush(flushInterval, intervals)
    /\ flushInterval' = "interval"
    /\ isInitialized' = TRUE
    /\ initPromise' = "null"
    /\ logEvent' = LogEvent(IF flushInterval # "null" THEN "initDoneAgain"
                             ELSE "initDone", NoLogs)
    /\ UNCHANGED <<isProduction, client, logStreamName, sequenceToken,
                   logBuffer, awaitingSession, inFlight, now>>
    /\ UNCHANGED nonLoggerVars

\* cleanup(), lines 61-79, with the flush() it calls
Cleanup ==
    /\ FlushWithinBound(logBuffer)
    /\ intervals' = clearFlushInterval(flushInterval, intervals)
    /\ flushInterval' = "null"
    /\ inFlight' = InFlightAfterFlush(logBuffer)
    /\ client' = "null"
    /\ logStreamName' = "null"
    /\ sequenceToken' = "null"
    /\ logBuffer' = <<>>
    /\ isInitialized' = FALSE
    /\ initPromise' = "null"
    /\ logEvent' = LogEvent("cleanup", NoLogs)
    /\ UNCHANGED <<isProduction, awaitingSession, awaitingStream, now>>
    /\ UNCHANGED nonLoggerVars

\* the callback of a running timer, line 128: flush()
TimerFlush ==
    /\ intervals # <<>>
    /\ FlushWithinBound(logBuffer)
    /\ logBuffer' = BufferAfterFlush(logBuffer)
    /\ inFlight' = InFlightAfterFlush(logBuffer)
    /\ logEvent' = LogEvent("timer", NoLogs)
    /\ UNCHANGED <<isProduction, client, logStreamName, sequenceToken,
                   flushInterval, intervals, isInitialized, initPromise,
                   awaitingSession, awaitingStream, now>>
    /\ UNCHANGED nonLoggerVars

\* mutant: addLog does not look at isInitialized
AddLogAcceptsUninitialized ==
    isProduction /\ Len(logBuffer) < MAX_BUFFER_SIZE

\* addLog(), line 132
AddLogAccepts ==
    isProduction /\ isInitialized /\ Len(logBuffer) < MAX_BUFFER_SIZE

\* addLog(), lines 131-153, with the flush() it calls, at time t
AddLogAt(t) ==
    /\ EntriesHeld < MaxEntries
    /\ IF AddLogAccepts
       THEN LET pushed == Append(logBuffer, t)
            IN  IF Len(pushed) >= FlushThreshold
                THEN /\ FlushWithinBound(pushed)
                     /\ logBuffer' = BufferAfterFlush(pushed)
                     /\ inFlight' = InFlightAfterFlush(pushed)
                     /\ logEvent' = LogEvent("addLog", <<t>>)
                ELSE /\ logBuffer' = pushed
                     /\ logEvent' = LogEvent("addLog", <<t>>)
                     /\ UNCHANGED inFlight
       ELSE /\ logEvent' = LogEvent("addLogIgnored", NoLogs)
            /\ UNCHANGED <<logBuffer, inFlight>>
    /\ now' = t
    /\ UNCHANGED <<isProduction, client, logStreamName, sequenceToken,
                   flushInterval, intervals, isInitialized, initPromise,
                   awaitingSession, awaitingStream>>
    /\ UNCHANGED nonLoggerVars

\* addLog() within the millisecond of the call before it
AddLog == AddLogAt(now)

\* addLog() at a later millisecond than every call before it
AddLogLater == now < MaxClock /\ AddLogAt(now + 1)

\* flush(), lines 113-114: the request of `batch` is answered
SendSucceeds(batch) ==
    /\ BagIn(batch, inFlight)
    /\ inFlight' = inFlight (-) OneRequest(batch)
    /\ sequenceToken' = "token"
    /\ logEvent' = LogEvent("sendOk", batch)
    /\ UNCHANGED <<isProduction, client, logStreamName, logBuffer,
                   flushInterval, intervals, isInitialized, initPromise,
                   awaitingSession, awaitingStream, now>>
    /\ UNCHANGED nonLoggerVars

\* flush(), lines 115-123: the request of `batch` fails
SendFails(batch) ==
    /\ BagIn(batch, inFlight)
    /\ inFlight' = inFlight (-) OneRequest(batch)
    /\ logBuffer' = Rebuffer(batch, logBuffer)
    /\ logEvent' = LogEvent("sendFailed", batch)
    /\ UNCHANGED <<isProduction, client, logStreamName, sequenceToken,
                   flushInterval, intervals, isInitialized, initPromise,
                   awaitingSession, awaitingStream, now>>
    /\ UNCHANGED nonLoggerVars

SendSettles ==
    \E batch \in BagToSet(inFlight) : SendSucceeds(batch) \/ SendFails(batch)

(***************************************************************************)
(* getUserFriendlyError, App.jsx:68-100.  A message is kept as the text    *)
(* of its template with the values the template interpolates.              *)
(***************************************************************************)
\* The exception names the auth errors are told by, in the order they are
\* looked for, each with the message shown for it.
authErrorMessages ==
  <<
    <<
       <<"N","o","t","A","u","t","h","o","r","i","z","e","d","E","x","c",
         "e","p","t","i","o","n">>,
       "Invalid email or password. Please try again." >>,
    <<
       <<"U","s","e","r","N","o","t","F","o","u","n","d","E","x","c","e",
         "p","t","i","o","n">>,
       "User not found. Please check your email or sign up." >>,
    <<
       <<"C","o","d","e","M","i","s","m","a","t","c","h","E","x","c","e",
         "p","t","i","o","n">>,
       "Invalid verification code. Please check and try again." >>,
    <<
       <<"E","x","p","i","r","e","d","C","o","d","e","E","x","c","e","p",
         "t","i","o","n">>,
       "Verification code expired. Please request a new one." >>,
    <<
       <<"U","s","e","r","n","a","m","e","E","x","i","s","t","s","E","x",
         "c","e","p","t","i","o","n">>,
       "An account with this email already exists." >>,
    <<
       <<"L","i","m","i","t","E","x","c","e","e","d","e","d","E","x","c",
         "e","p","t","i","o","n">>,
       "Too many attempts. Please try again later." >>
  >>

\* String(error) of an Error that has no message
StringOfError == <<"E","r","r","o","r">>

FriendlyText(text, operation, detail) ==
    [detail |-> detail, operation |-> operation, text |-> text]

\* the empty string of useState('')
NoError == FriendlyText("", "", <<>>)

PasswordsDoNotMatch == FriendlyText("Passwords do not match", "", <<>>)

\* mutant: the exception names are looked for before the network markers
getUserFriendlyErrorAuthFirst(error, operation) ==
    IF error.isNull
    THEN FriendlyText("An unknown error occurred", "", <<>>)
    ELSE
    LET errorMsg == IF error.hasMessage /\ error.message # <<>>
                    THEN error.message
                    ELSE StringOfError
        found == {k \in 1..Len(authErrorMessages) :
                     includes(errorMsg, authErrorMessages[k][1])}
        first == CHOOSE k \in found : \A j \in found : k <= j
    IN  IF found # {}
        THEN FriendlyText(authErrorMessages[first][2], "", <<>>)
        ELSE IF isRetryableError(error)
        THEN FriendlyText(
                 "Network error during ${operation}. Retrying automatically...",
                 operation, <<>>)
        ELSE FriendlyText("Error during ${operation}: ${errorMsg}",
                          operation, errorMsg)

getUserFriendlyError(error, operation) ==
    IF error.isNull
    THEN FriendlyText("An unknown error occurred", "", <<>>)
    ELSE
    LET errorMsg == IF error.hasMessage /\ error.message # <<>>
                    THEN error.message
                    ELSE StringOfError
        found == {k \in 1..Len(authErrorMessages) :
                     includes(errorMsg, authErrorMessages[k][1])}
        first == CHOOSE k \in found : \A j \in found : k <= j
    IN  IF isRetryableError(error)
        THEN FriendlyText(
                 "Network error during ${operation}. Retrying automatically...",
                 operation, <<>>)
        ELSE IF found # {}
        THEN FriendlyText(authErrorMessages[first][2], "", <<>>)
        ELSE FriendlyText("Error during ${operation}: ${errorMsg}",
                          operation, errorMsg)

(***************************************************************************)
(* One call of isRetryableError or of getUserFriendlyError on an error     *)
(* whose message is put together from pieces: the markers of               *)
(* retryableMessages as written and in other cases, the exception names,   *)
(* and words that hold no marker.                                          *)
(***************************************************************************)
MaxPieces == 2

MessagePieces ==
    {retryableMessages[k] : k \in 1..Len(retryableMessages)}
    \cup {authErrorMessages[k][1] : k \in 1..Len(authErrorMessages)}
    \cup { <<"N","E","T","W","O","R","K">>, <<"T","i","m","e","O","u","t">>,
           <<"F","E","T","C","H">>, <<"C","o","n","n","e","c","t","i","o","n">>,
           <<"e","c","o","n","n","r","e","f","u","s","e","d">>,
           <<"n","e","t">>, <<"w","o","r","k">>, <<" ">>,
           <<"U","n","a","u","t","h","o","r","i","z","e","d">>,
           <<"d","e","n","i","e","d">> }

RECURSIVE Messages(_)
Messages(n) ==
    IF n = 0 THEN {<<>>}
    ELSE LET shorter == Messages(n - 1)
         IN  shorter \cup {m \o piece : m \in shorter, piece \in MessagePieces}

ClassifiedErrors ==
    {NullError, NoMessageError} \cup {ErrorWith(m) : m \in Messages(MaxPieces)}

Operations == {"sign in", "loading recipes"}

ClassifierInit ==
    /\ cCall \in {"isRetryableError", "getUserFriendlyError"}
    /\ cError \in ClassifiedErrors
    /\ cOperation \in Operations
    /\ cPc = "called"
    /\ cRetryable = FALSE
    /\ cFriendly = NoError

ClassifierIdle ==
    /\ cCall = "none"
    /\ cError = NullError
    /\ cOperation = ""
    /\ cPc = "returned"
    /\ cRetryable = FALSE
    /\ cFriendly = NoError

IsRetryableErrorReturns ==
    /\ cCall = "isRetryableError" /\ cPc = "called"
    /\ cRetryable' = isRetryableError(cError)
    /\ cPc' = "returned"
    /\ UNCHANGED <<cCall, cError, cOperation, cFriendly>>
    /\ UNCHANGED nonClassifierVars

GetUserFriendlyErrorReturns ==
    /\ cCall = "getUserFriendlyError" /\ cPc = "called"
    /\ cFriendly' = getUserFriendlyError(cError, cOperation)
    /\ cPc' = "returned"
    /\ UNCHANGED <<cCall, cError, cOperation, cRetryable>>
    /\ UNCHANGED nonClassifierVars

(***************************************************************************)
(* The toast queue: useToast (src/src/Usetoast.js) and the Toast           *)
(* component (src/unnamed/part_001).                                       *)
(***************************************************************************)
ToastDefaultDuration == 4000

\* the options argument; "" and 0 stand for a property that is not given
ToastOptions(type, title, duration) ==
    [duration |-> duration, title |-> title, type |-> type]

NoOptions == ToastOptions("", "", 0)

NewToast(id, message, options) ==
    [duration |-> IF options.duration = 0 THEN ToastDefaultDuration
                  ELSE options.duration,
     id       |-> id,
     message  |-> message,
     title    |-> IF options.title = "" THEN "null" ELSE options.title,
     type     |-> IF options.type = "" THEN "info" ELSE options.type]

\* setToasts((prev) => [...prev, toast])
addToast(prev, id, message, options) ==
    Append(prev, NewToast(id, message, options))

\* toast.success(message): addToast(message, { ...options, type: 'success' })
success(prev, id, message) ==
    addToast(prev, id, message, [NoOptions EXCEPT !.type = "success"])

\* mutant: the toast stays in the queue
removeToastKeeps(prev, id) == prev

removeToast(prev, id) == SelectSeq(prev, LAMBDA toast : toast.id # id)

ToastIds == {toasts[i].id : i \in 1..Len(toasts)}

\* What the handlers of App say in their toasts.
NoToast == <<>>

ToastWelcomeBack == <<"Welcome back!">>

ToastEmailConfirmed == <<"Email confirmed! You can now sign in.">>

ToastRecipe(recipeName, what) ==
    <<"Recipe \"">> \o recipeName \o <<"\" ", what, " successfully!">>

(***************************************************************************)
(* The state of the App component, App.jsx:15-38.                          *)
(***************************************************************************)
NoUser == "null"

\* what getCurrentUser() resolves to
CurrentUser == "user"

\* prepTime: null
NullPrepTime == -1

RecipeForm(name, ingredients, directions, prepTime) ==
    [directions |-> directions, ingredients |-> ingredients, name |-> name,
     prepTime |-> prepTime]

EmptyForm == RecipeForm(<<>>, "", "", NullPrepTime)

Recipe(id, data) ==
    [directions |-> data.directions, id |-> id,
     ingredients |-> data.ingredients, name |-> data.name,
     prepTime |-> data.prepTime]

RecipeData(recipe) ==
    RecipeForm(recipe.name, recipe.ingredients, recipe.directions,
               recipe.prepTime)

\* editingRecipe === null
NoRecipe == Recipe(0, EmptyForm)

\* the email, password, confirmPassword and confirmationCode a render holds
Creds(a) ==
    [confirmPassword |-> a.confirmPassword,
     confirmationCode |-> a.confirmationCode,
     email |-> a.email, password |-> a.password]

NoCreds ==
    [confirmPassword |-> "", confirmationCode |-> "", email |-> "",
     password |-> ""]

\* A function kept in lastFailedOperation, with the values it closes over.
\* applied is not a value of the program: it counts how many requests of
\* the submission that left the function the backend has carried out.
Closure(kind, creds, recipe) ==
    [applied |-> 0, creds |-> creds, kind |-> kind, recipe |-> recipe]

\* lastFailedOperation === null
NoOperation == Closure("null", NoCreds, NoRecipe)

AppMounted ==
    [authMode |-> "signin", confirmPassword |-> "", confirmationCode |-> "",
     editingRecipe |-> NoRecipe, email |-> "", error |-> NoError,
     isLoading |-> FALSE, lastFailedOperation |-> NoOperation,
     needsConfirmation |-> FALSE, newRecipe |-> EmptyForm, password |-> "",
     recipes |-> <<>>, retryCount |-> 0, searchTerm |-> <<>>,
     showCreateForm |-> FALSE, user |-> NoUser]

(***************************************************************************)
(* The asynchronous calls of App.  A task is one running async function    *)
(* suspended at an await of a backend call: its request is sent, or its    *)
(* response is on the way back, or retryOperation waits out a delay.       *)
(* issuedWithUser records whether user was set when the request went out,  *)
(* applied how many requests of the task's submission (its automatic and   *)
(* manual retries included) the backend has carried out; neither is a      *)
(* value of the program.                                                   *)
(***************************************************************************)
AppReturned(data) == [error |-> NullError, ok |-> TRUE, value |-> data]

AppThrew(e) == [error |-> e, ok |-> FALSE, value |-> <<>>]

NoResponse == AppThrew(NullError)

Task(kind, call, creds, recipe, viaRetry, a) ==
    [applied |-> 0, call |-> call, creds |-> creds, currentRetry |-> 0,
     issuedWithUser |-> a.user # NoUser, kind |-> kind, pc |-> "sent",
     recipe |-> recipe, response |-> NoResponse, viaRetry |-> viaRetry]

NoTask ==
    [applied |-> 0, call |-> "none", creds |-> NoCreds, currentRetry |-> 0,
     issuedWithUser |-> FALSE, kind |-> "none", pc |-> "done",
     recipe |-> NoRecipe, response |-> NoResponse, viaRetry |-> FALSE]

OneTask(t) == SetToBag({t})

\* the calls made through retryOperation
RetriedCalls ==
    {"signUp", "confirmSignUp", "signIn", "list", "create", "update",
     "delete"}

\* the calls of client.models.Recipe
RecipeCalls == {"list", "create", "update", "delete"}

\* the next call of a running task
Issue(t, call, a) ==
    [t EXCEPT !.call = call, !.currentRetry = 0,
              !.issuedWithUser = a.user # NoUser, !.pc = "sent",
              !.response = NoResponse]

\* A handler run up to its first await: the state it set, the task it left.
Started(a, t) == [app |-> a, task |-> t]

\* A task resumed by a response: the state it set, what is left of the task,
\* the task it started without awaiting it, the toast it showed.
Resumed(a, t, s, m) == [app |-> a, spawn |-> s, task |-> t, toast |-> m]

\* mutant: the retry function is kept
clearErrorKeepsOperation(a) ==
    [a EXCEPT !.error = NoError, !.retryCount = 0]

clearError(a) ==
    [a EXCEPT !.error = NoError, !.lastFailedOperation = NoOperation,
              !.retryCount = 0]

\* loadRecipes() with isRetry = false, up to its await
loadRecipes(a) ==
    Started(clearError([a EXCEPT !.isLoading = TRUE]),
            Task("load", "list", NoCreds, NoRecipe, FALSE, a))

\* mutant: loadRecipes without its finally block
loadRecipesSettledHoldsLoading(a, outcome) ==
    IF outcome.ok
    THEN [a EXCEPT !.recipes = outcome.value, !.retryCount = 0,
                   !.lastFailedOperation = NoOperation]
    ELSE [a EXCEPT !.error = getUserFriendlyError(outcome.error,
                                                  "loading recipes"),
                   !.lastFailedOperation =
                       Closure("loadRecipes", NoCreds, NoRecipe)]

\* mutant: the catch block of loadRecipes leaves lastFailedOperation alone
loadRecipesSettledKeepsOperation(a, outcome) ==
    IF outcome.ok
    THEN [a EXCEPT !.recipes = outcome.value, !.retryCount = 0,
                   !.lastFailedOperation = NoOperation, !.isLoading = FALSE]
    ELSE [a EXCEPT !.error = getUserFriendlyError(outcome.error,
                                                  "loading recipes"),
                   !.isLoading = FALSE]

\* loadRecipes after its await, with either value of isRetry
loadRecipesSettled(a, outcome) ==
    IF outcome.ok
    THEN [a EXCEPT !.recipes = outcome.value, !.retryCount = 0,
                   !.lastFailedOperation = NoOperation, !.isLoading = FALSE]
    ELSE [a EXCEPT !.error = getUserFriendlyError(outcome.error,
                                                  "loading recipes"),
                   !.lastFailedOperation =
                       Closure("loadRecipes", NoCreds, NoRecipe),
                   !.isLoading = FALSE]

\* checkUser after await getCurrentUser()
checkUserSettled(a, outcome) ==
    IF outcome.ok
    THEN loadRecipes([a EXCEPT !.user = CurrentUser])
    ELSE Started([a EXCEPT !.user = NoUser], NoTask)

\* mutant: the passwords are not compared
handleSignUpWithUnchecked(a, c) ==
    Started([clearError(a) EXCEPT !.isLoading = TRUE],
            Task("signUp", "signUp", c, NoRecipe, FALSE, a))

\* handleSignUp as the render that holds the credentials c runs it
handleSignUpWith(a, c) ==
    IF c.password # c.confirmPassword
    THEN Started([clearError(a) EXCEPT !.error = PasswordsDoNotMatch,
                                       !.isLoading = FALSE], NoTask)
    ELSE Started([clearError(a) EXCEPT !.isLoading = TRUE],
                 Task("signUp", "signUp", c, NoRecipe, FALSE, a))

handleConfirmSignUpWith(a, c) ==
    Started([clearError(a) EXCEPT !.isLoading = TRUE],
            Task("confirm", "confirmSignUp", c, NoRecipe, FALSE, a))

handleSignInWith(a, c) ==
    Started([clearError(a) EXCEPT !.isLoading = TRUE],
            Task("signIn", "signIn", c, NoRecipe, FALSE, a))

\* handleCreateRecipe, or with viaRetry the function it left in
\* lastFailedOperation; recipe.id is not used
handleCreateRecipeWith(a, recipe, viaRetry) ==
    Started(IF viaRetry THEN [a EXCEPT !.isLoading = TRUE]
            ELSE clearError([a EXCEPT !.isLoading = TRUE]),
            Task("create", "create", NoCreds, recipe, viaRetry, a))

handleUpdateRecipeWith(a, recipe, viaRetry) ==
    Started(IF viaRetry THEN [a EXCEPT !.isLoading = TRUE]
            ELSE clearError([a EXCEPT !.isLoading = TRUE]),
            Task("update", "update", NoCreds, recipe, viaRetry, a))

\* of the recipe only recipeId and recipeName are used
handleDeleteRecipeWith(a, recipe, viaRetry) ==
    Started(IF viaRetry THEN [a EXCEPT !.isLoading = TRUE]
            ELSE clearError([a EXCEPT !.isLoading = TRUE]),
            Task("delete", "delete", NoCreds, recipe, viaRetry, a))

\* mutant: the retry functions of create and update read the form as it is
\* when they are called
CalledWithCurrentForm(f, a) ==
    CASE f.kind = "signUp"      -> handleSignUpWith(a, f.creds)
      [] f.kind = "confirm"     -> handleConfirmSignUpWith(a, f.creds)
      [] f.kind = "signIn"      -> handleSignInWith(a, f.creds)
      [] f.kind = "loadRecipes" -> loadRecipes(a)
      [] f.kind = "create"      ->
             handleCreateRecipeWith(a, Recipe(0, a.newRecipe), TRUE)
      [] f.kind = "update"      ->
             handleUpdateRecipeWith(
                 a, Recipe(a.editingRecipe.id, a.newRecipe), TRUE)
      [] f.kind = "delete"      -> handleDeleteRecipeWith(a, f.recipe, TRUE)

\* the function f called: the handler it runs
Called(f, a) ==
    CASE f.kind = "signUp"      -> handleSignUpWith(a, f.creds)
      [] f.kind = "confirm"     -> handleConfirmSignUpWith(a, f.creds)
      [] f.kind = "signIn"      -> handleSignInWith(a, f.creds)
      [] f.kind = "loadRecipes" -> loadRecipes(a)
      [] f.kind = "create"      -> handleCreateRecipeWith(a, f.recipe, TRUE)
      [] f.kind = "update"      -> handleUpdateRecipeWith(a, f.recipe, TRUE)
      [] f.kind = "delete"      -> handleDeleteRecipeWith(a, f.recipe, TRUE)

\* lastFailedOperation(); the task goes on counting for the submission
Invoke(f, a) ==
    LET started == Called(f, a)
    IN  IF started.task = NoTask THEN started
        ELSE Started(started.app,
                     [started.task EXCEPT !.applied = f.applied])

\* mutant: signing out also closes the recipe form
handleSignOutSettledClosesForm(a, outcome) ==
    IF outcome.ok
    THEN [a EXCEPT !.user = NoUser, !.recipes = <<>>,
                   !.editingRecipe = NoRecipe, !.newRecipe = EmptyForm,
                   !.showCreateForm = FALSE]
    ELSE a

\* handleSignOut after await signOut()
handleSignOutSettled(a, outcome) ==
    IF outcome.ok
    THEN [a EXCEPT !.user = NoUser, !.recipes = <<>>]
    ELSE a

\* the catch block of a handler whose first call failed
Failed(a, t, operation, f) ==
    Resumed([a EXCEPT !.error = getUserFriendlyError(t.response.error,
                                                     operation),
                      !.lastFailedOperation =
                          IF t.viaRetry THEN a.lastFailedOperation
                          ELSE [f EXCEPT !.applied = t.applied],
                      !.isLoading = FALSE],
            NoTask, NoTask, NoToast)

\* A task resumed by the outcome that retryOperation passes on to it.
Settled(a, t) ==
    LET o == t.response
        checked == checkUserSettled(a, o)
    IN
    CASE t.kind = "checkUser" ->
             Resumed(checked.app, NoTask, checked.task, NoToast)
      [] t.kind = "signOut" ->
             Resumed(handleSignOutSettled(a, o), NoTask, NoTask, NoToast)
      [] t.kind = "signUp" ->
             IF o.ok
             THEN Resumed([a EXCEPT !.needsConfirmation = TRUE,
                                    !.password = "", !.confirmPassword = "",
                                    !.isLoading = FALSE],
                          NoTask, NoTask, NoToast)
             ELSE Failed(a, t, "sign up",
                         Closure("signUp", t.creds, NoRecipe))
      [] t.kind = "confirm" ->
             IF o.ok
             THEN Resumed([a EXCEPT !.needsConfirmation = FALSE,
                                    !.authMode = "signin", !.email = "",
                                    !.confirmationCode = "",
                                    !.isLoading = FALSE],
                          NoTask, NoTask, ToastEmailConfirmed)
             ELSE Failed(a, t, "email confirmation",
                         Closure("confirm", t.creds, NoRecipe))
      [] t.kind = "signIn" /\ t.call = "signIn" ->
             IF o.ok
             THEN Resumed(a, Issue(t, "getCurrentUser", a), NoTask, NoToast)
             ELSE Failed(a, t, "sign in",
                         Closure("signIn", t.creds, NoRecipe))
      [] t.kind = "signIn" /\ t.call = "getCurrentUser" ->
             Resumed([checked.app EXCEPT !.email = "", !.password = "",
                                         !.isLoading = FALSE],
                     NoTask, checked.task, ToastWelcomeBack)
      [] t.kind = "load" ->
             Resumed(loadRecipesSettled(a, o), NoTask, NoTask, NoToast)
      [] t.kind = "create" /\ t.call = "create" ->
             IF o.ok
             THEN Resumed([a EXCEPT !.newRecipe = EmptyForm,
                                    !.showCreateForm = FALSE],
                          Issue(t, "list", a), NoTask, NoToast)
             ELSE Failed(a, t, "creating recipe",
                         Closure("create", NoCreds, t.recipe))
      [] t.kind = "create" /\ t.call = "list" ->
             Resumed(loadRecipesSettled(a, o), NoTask, NoTask,
                     ToastRecipe(t.recipe.name, "created"))
      [] t.kind = "update" /\ t.call = "update" ->
             IF o.ok
             THEN Resumed([a EXCEPT !.newRecipe = EmptyForm,
                                    !.editingRecipe = NoRecipe],
                          Issue(t, "list", a), NoTask, NoToast)
             ELSE Failed(a, t, "updating recipe",
                         Closure("update", NoCreds, t.recipe))
      [] t.kind = "update" /\ t.call = "list" ->
             Resumed(loadRecipesSettled(a, o), NoTask, NoTask,
                     ToastRecipe(t.recipe.name, "updated"))
      [] t.kind = "delete" /\ t.call = "delete" ->
             IF o.ok
             THEN Resumed(a, Issue(t, "list", a), NoTask, NoToast)
             ELSE Failed(a, t, "deleting recipe",
                         Closure("delete", NoCreds, t.recipe))
      [] t.kind = "delete" /\ t.call = "list" ->
             Resumed(loadRecipesSettled(a, o), NoTask, NoTask,
                     ToastRecipe(t.recipe.name, "deleted"))

\* A task resumed by a response: retryOperation first.
Resume(a, t) ==
    LET step == RetryStep(t.response, t.currentRetry, DefaultMaxRetries)
    IN  IF t.call \in RetriedCalls /\ step.kind = "wait"
        THEN Resumed(a, [t EXCEPT !.currentRetry = step.next,
                                  !.pc = "backoff",
                                  !.response = NoResponse],
                     NoTask, NoToast)
        ELSE Settled(a, t)

(***************************************************************************)
(* The backend: the Amplify auth session and the signed-in user's recipes. *)
(***************************************************************************)
\* ---- bounds
MaxTasks == 2

MaxToastId == 2

MaxRecipeId == 3

\* ---- what the user types
Emails == {"e"}

Passwords == {"p"}

ConfirmPasswords == {"p", "q"}

ConfirmationCodes == {"c"}

\* the name field is filled in or cleared
RecipeNames == {<<>>, <<"b">>}

SearchTerms == {<<>>, <<"B">>}

\* what the search scenario types, and the names it searches
LongerSearchTerms ==
    {<<>>, <<"b">>, <<"B">>, <<"a", "b">>, <<"A", "B">>, <<"b", "b">>}

SearchedNames == {<<"a">>, <<"A", "b">>, <<"b", "a">>, <<"B">>}

MaxSearched == 3

TheIngredients == "i"

TheDirections == "d"

\* the recipe the backend holds when the page is opened
StoredRecipe == Recipe(1, RecipeForm(<<"a">>, TheIngredients, TheDirections, 5))

AuthErrors == {ErrorWith(MsgFailedToFetch), ErrorWith(MsgNotAuthorized)}

RecipeErrors == {ErrorWith(MsgFailedToFetch), ErrorWith(MsgUnauthorized)}

ServerOutcome(r, s, d, n) ==
    [db |-> d, nextRecipeId |-> n, response |-> r, session |-> s]

\* the request is answered and the backend is left as it was
Answers(r) == ServerOutcome(r, session, db, nextRecipeId)

Rejects(errors) == {Answers(AppThrew(e)) : e \in errors}

\* the request takes effect; its response may be lost on the way back
Applies(d, n) ==
    {ServerOutcome(AppReturned(<<>>), session, d, n),
     ServerOutcome(AppThrew(ErrorWith(MsgFailedToFetch)), session, d, n)}

Stored(id) == \E i \in 1..Len(db) : db[i].id = id

ServerOutcomes(t) ==
    CASE t.call = "getCurrentUser" ->
             IF session # NoUser THEN {Answers(AppReturned(<<>>))}
             ELSE Rejects({ErrorWith(MsgUnauthorized)})
      [] t.call = "signIn" ->
             IF session # NoUser THEN Rejects(AuthErrors)
             ELSE {ServerOutcome(AppReturned(<<>>), CurrentUser, db,
                                 nextRecipeId)}
                  \cup Rejects(AuthErrors)
      [] t.call \in {"signUp", "confirmSignUp"} ->
             {Answers(AppReturned(<<>>))} \cup Rejects(AuthErrors)
      [] t.call = "signOut" ->
             {ServerOutcome(AppReturned(<<>>), NoUser, db, nextRecipeId)}
             \cup Rejects({ErrorWith(MsgFailedToFetch)})
      [] t.call \in RecipeCalls /\ session = NoUser ->
             Rejects({ErrorWith(MsgUnauthorized)})
      [] t.call = "list" /\ session # NoUser ->
             {Answers(AppReturned(db))} \cup Rejects(RecipeErrors)
      [] t.call = "create" /\ session # NoUser ->
             (IF nextRecipeId <= MaxRecipeId
              THEN Applies(Append(db, Recipe(nextRecipeId,
                                             RecipeData(t.recipe))),
                           nextRecipeId + 1)
              ELSE {})
             \cup Rejects(RecipeErrors)
      [] t.call = "update" /\ session # NoUser ->
             (IF Stored(t.recipe.id)
              THEN Applies([i \in 1..Len(db) |->
                               IF db[i].id = t.recipe.id THEN t.recipe
                               ELSE db[i]],
                           nextRecipeId)
              ELSE {})
             \cup Rejects(RecipeErrors)
      [] t.call = "delete" /\ session # NoUser ->
             (IF Stored(t.recipe.id)
              THEN Applies(SelectSeq(db, LAMBDA r : r.id # t.recipe.id),
                           nextRecipeId)
              ELSE {})
             \cup Rejects(RecipeErrors)

(***************************************************************************)
(* What the page shows, App.jsx:434-758.                                   *)
(***************************************************************************)
\* mutant: the search term is compared as typed
filteredRecipesTermAsTyped ==
    SelectSeq(app.recipes,
              LAMBDA recipe : includes(toLowerCase(recipe.name),
                                       app.searchTerm))

filteredRecipes ==
    SelectSeq(app.recipes,
              LAMBDA recipe : includes(toLowerCase(recipe.name),
                                       toLowerCase(app.searchTerm)))

AuthView == app.user = NoUser

SignInFormShown == AuthView /\ app.authMode = "signin"

ConfirmFormShown ==
    AuthView /\ app.authMode = "signup" /\ app.needsConfirmation

SignUpFormShown ==
    AuthView /\ app.authMode = "signup" /\ ~app.needsConfirmation

RecipeFormShown ==
    ~AuthView /\ (app.showCreateForm \/ app.editingRecipe # NoRecipe)

ErrorShown == (AuthView \/ RecipeFormShown) /\ app.error # NoError

RetryShown ==
    ErrorShown /\ app.lastFailedOperation # NoOperation /\ ~app.isLoading

\* the required inputs of the recipe form are filled in
RecipeFormValid ==
    /\ app.newRecipe.name # <<>>
    /\ app.newRecipe.ingredients # ""
    /\ app.newRecipe.directions # ""

(***************************************************************************)
(* The actions of App.                                                     *)
(***************************************************************************)
\* the handlers that end in a toast
ToastingKinds == {"confirm", "signIn", "create", "update", "delete"}

ToastsToCome ==
    LET toasting == {t \in BagToSet(tasks) : t.kind \in ToastingKinds}
    IN  BagCardinality([t \in toasting |-> tasks[t]])

MayStart(t) ==
    \/ t = NoTask
    \/ /\ BagCardinality(tasks) < MaxTasks
       /\ t.kind \in ToastingKinds =>
              toastIdCounter + ToastsToCome < MaxToastId

\* An event handler runs up to its first await, or to its end.
Handled(event, started) ==
    /\ MayStart(started.task)
    /\ app' = started.app
    /\ tasks' = IF started.task = NoTask THEN tasks
                ELSE tasks (+) OneTask(started.task)
    /\ appEvent' = event
    /\ UNCHANGED <<session, db, nextRecipeId, toastVars>>
    /\ UNCHANGED nonAppVars

\* A setter called by an input or a button.
IsSet(event, a) == a # app /\ Handled(event, Started(a, NoTask))

setAuthMode ==
    /\ AuthView
    /\ \E mode \in {"signin", "signup"} :
           IsSet("setAuthMode", [app EXCEPT !.authMode = mode])

setEmail ==
    /\ SignInFormShown \/ SignUpFormShown
    /\ \E v \in Emails : IsSet("setEmail", [app EXCEPT !.email = v])

setPassword ==
    /\ SignInFormShown \/ SignUpFormShown
    /\ \E v \in Passwords : IsSet("setPassword", [app EXCEPT !.password = v])

setConfirmPassword ==
    /\ SignUpFormShown
    /\ \E v \in ConfirmPasswords :
           IsSet("setConfirmPassword", [app EXCEPT !.confirmPassword = v])

setConfirmationCode ==
    /\ ConfirmFormShown
    /\ \E v \in ConfirmationCodes :
           IsSet("setConfirmationCode", [app EXCEPT !.confirmationCode = v])

handleSignUp ==
    /\ SignUpFormShown
    /\ ~app.isLoading
    /\ app.email # "" /\ app.password # "" /\ app.confirmPassword # ""
    /\ Handled("handleSignUp", handleSignUpWith(app, Creds(app)))

handleConfirmSignUp ==
    /\ ConfirmFormShown
    /\ ~app.isLoading
    /\ app.confirmationCode # ""
    /\ Handled("handleConfirmSignUp",
               handleConfirmSignUpWith(app, Creds(app)))

\* the Back to Sign Up button, App.jsx:520-532
BackToSignUp ==
    /\ ConfirmFormShown
    /\ ~app.isLoading
    /\ Handled("backToSignUp",
               Started(clearError([app EXCEPT !.needsConfirmation = FALSE,
                                              !.email = "",
                                              !.confirmationCode = ""]),
                       NoTask))

handleSignIn ==
    /\ SignInFormShown
    /\ ~app.isLoading
    /\ app.email # "" /\ app.password # ""
    /\ Handled("handleSignIn", handleSignInWith(app, Creds(app)))

handleSignOut ==
    /\ ~AuthView
    /\ ~app.isLoading
    /\ Handled("handleSignOut",
               Started(app, Task("signOut", "signOut", NoCreds, NoRecipe,
                                 FALSE, app)))

handleRetry ==
    /\ RetryShown
    /\ Handled("handleRetry",
               Invoke(app.lastFailedOperation,
                      clearError([app EXCEPT !.retryCount = @ + 1])))

\* the dismiss button of the error banner
Dismiss ==
    /\ ErrorShown
    /\ Handled("clearError", Started(clearError(app), NoTask))

\* onChange of the search input, with one of the terms typed
setSearchTermIn(terms) ==
    /\ ~AuthView
    /\ \E v \in terms :
           IsSet("setSearchTerm", [app EXCEPT !.searchTerm = v])

setSearchTerm == setSearchTermIn(SearchTerms)

setSearchTermLonger == setSearchTermIn(LongerSearchTerms)

\* the New Recipe / Cancel button, App.jsx:591-602
ToggleCreateForm ==
    /\ ~AuthView
    /\ app.editingRecipe = NoRecipe /\ ~app.isLoading
    /\ Handled("toggleCreateForm",
               Started([app EXCEPT !.showCreateForm = ~app.showCreateForm],
                       NoTask))

setNewRecipe ==
    /\ RecipeFormShown
    /\ \/ \E v \in RecipeNames :
              IsSet("setNewRecipe", [app EXCEPT !.newRecipe.name = v])
       \/ IsSet("setNewRecipe",
                [app EXCEPT !.newRecipe.ingredients = TheIngredients])
       \/ IsSet("setNewRecipe",
                [app EXCEPT !.newRecipe.directions = TheDirections])

handleCreateRecipe ==
    /\ RecipeFormShown
    /\ app.editingRecipe = NoRecipe
    /\ ~app.isLoading
    /\ RecipeFormValid
    /\ Handled("handleCreateRecipe",
               handleCreateRecipeWith(app, Recipe(0, app.newRecipe), FALSE))

\* mutant: Edit leaves the create form as it is
handleEditRecipeKeepsCreateForm ==
    /\ ~AuthView
    /\ ~app.isLoading
    /\ \E i \in 1..Len(filteredRecipes) :
           LET recipe == filteredRecipes[i]
           IN  Handled("handleEditRecipe",
                       Started(clearError(
                                   [app EXCEPT
                                       !.editingRecipe = recipe,
                                       !.newRecipe = RecipeData(recipe)]),
                               NoTask))

handleEditRecipe ==
    /\ ~AuthView
    /\ ~app.isLoading
    /\ \E i \in 1..Len(filteredRecipes) :
           LET recipe == filteredRecipes[i]
           IN  Handled("handleEditRecipe",
                       Started(clearError(
                                   [app EXCEPT
                                       !.editingRecipe = recipe,
                                       !.newRecipe = RecipeData(recipe),
                                       !.showCreateForm = FALSE]),
                               NoTask))

handleUpdateRecipe ==
    /\ RecipeFormShown
    /\ app.editingRecipe # NoRecipe
    /\ ~app.isLoading
    /\ RecipeFormValid
    /\ Handled("handleUpdateRecipe",
               handleUpdateRecipeWith(
                   app, Recipe(app.editingRecipe.id, app.newRecipe), FALSE))

handleCancelEdit ==
    /\ RecipeFormShown
    /\ app.editingRecipe # NoRecipe
    /\ ~app.isLoading
    /\ Handled("handleCancelEdit",
               Started(clearError([app EXCEPT !.editingRecipe = NoRecipe,
                                              !.newRecipe = EmptyForm]),
                       NoTask))

\* mutant: the answer to window.confirm is not looked at
ConfirmIgnored(answer) == TRUE

\* !window.confirm(...) is false
Confirmed(answer) == answer

handleDeleteRecipe ==
    /\ ~AuthView
    /\ ~app.isLoading
    /\ \E i \in 1..Len(filteredRecipes), answer \in BOOLEAN :
           LET recipe == filteredRecipes[i]
           IN  Handled(IF answer THEN "handleDeleteRecipe confirmed"
                       ELSE "handleDeleteRecipe declined",
                       IF Confirmed(answer)
                       THEN handleDeleteRecipeWith(
                                app,
                                Recipe(recipe.id,
                                       [EmptyForm EXCEPT
                                           !.name = recipe.name]),
                                FALSE)
                       ELSE Started(app, NoTask))

\* The backend handles a Recipe.list() request: the answer holds the
\* recipes as they are now and reaches the page later.
ServerResponds ==
    \E t \in BagToSet(tasks) :
        /\ t.pc = "sent" /\ t.call = "list"
        /\ \E o \in ServerOutcomes(t) :
               tasks' = (tasks (-) OneTask(t))
                        (+) OneTask([t EXCEPT !.pc = "answered",
                                              !.response = o.response])
        /\ appEvent' = "serverResponds"
        /\ UNCHANGED <<app, session, db, nextRecipeId, toastVars>>
        /\ UNCHANGED nonAppVars

\* The awaiting function of the task goes on with the response it awaited;
\* held is the task as the page held it until then.
Resumes(event, held, t) ==
    LET r == Resume(app, t)
        rest == tasks (-) OneTask(held)
        kept == IF r.task = NoTask THEN rest ELSE rest (+) OneTask(r.task)
    IN  /\ app' = r.app
        /\ tasks' = IF r.spawn = NoTask THEN kept
                    ELSE kept (+) OneTask(r.spawn)
        /\ IF r.toast = NoToast
           THEN UNCHANGED toastVars
           ELSE /\ toastIdCounter' = toastIdCounter + 1
                /\ toasts' = success(toasts, toastIdCounter + 1, r.toast)
        /\ appEvent' = event
        /\ UNCHANGED nonAppVars

\* The answer to a Recipe.list() reaches the page.
ResponseArrives ==
    \E t \in BagToSet(tasks) :
        /\ t.pc = "answered"
        /\ Resumes("responseArrives", t, t)
        /\ UNCHANGED <<session, db, nextRecipeId>>

\* Any other call settles: the backend handles the request and the page
\* gets the answer.
CallSettles ==
    \E t \in BagToSet(tasks) :
        /\ t.pc = "sent" /\ t.call # "list"
        /\ \E o \in ServerOutcomes(t) :
               /\ Resumes("callSettles", t,
                          [t EXCEPT !.pc = "answered",
                                    !.response = o.response,
                                    !.applied =
                                        IF o.db # db THEN @ + 1 ELSE @])
               /\ session' = o.session
               /\ db' = o.db
               /\ nextRecipeId' = o.nextRecipeId

\* The setTimeout of retryOperation fires and the operation is called again.
BackoffElapsed ==
    \E t \in BagToSet(tasks) :
        /\ t.pc = "backoff"
        /\ tasks' = (tasks (-) OneTask(t))
                    (+) OneTask([t EXCEPT !.pc = "sent",
                                          !.issuedWithUser =
                                              app.user # NoUser])
        /\ appEvent' = "backoffElapsed"
        /\ UNCHANGED <<app, session, db, nextRecipeId, toastVars>>
        /\ UNCHANGED nonAppVars

\* The timer of the ToastItem of toast id fires: setTimeout(() =>
\* removeToast(toast.id), toast.duration || 4000).
ToastTimerFiresFor(id) ==
    /\ id \in ToastIds
    /\ toasts' = removeToast(toasts, id)
    /\ appEvent' = "toastTimerFires"
    /\ UNCHANGED <<toastIdCounter, app, tasks, session, db, nextRecipeId>>
    /\ UNCHANGED nonAppVars

ToastTimerFires == \E id \in 1..MaxToastId : ToastTimerFiresFor(id)

\* The close button of a ToastItem is clicked.
ToastClosed ==
    \E id \in ToastIds :
        /\ toasts' = removeToast(toasts, id)
        /\ appEvent' = "toastClosed"
        /\ UNCHANGED <<toastIdCounter, app, tasks, session, db, nextRecipeId>>
        /\ UNCHANGED nonAppVars

\* ---- what the callers of useToast pass
ToastMessages == {<<"saved">>}

ToastTypes == {"", "success", "error", "warning", "info"}

ToastTitles == {"", "Note"}

ToastDurations == {0, 1000}

\* addToast(message, options), or one of success, error, warning and info,
\* which fix the type
\* mutant: a toast is numbered by its place in the list
AddToastNumbersByPlace ==
    /\ toastIdCounter < MaxToastId
    /\ \E message \in ToastMessages, type \in ToastTypes,
          title \in ToastTitles, duration \in ToastDurations :
           toasts' = addToast(toasts, Len(toasts) + 1, message,
                              ToastOptions(type, title, duration))
    /\ toastIdCounter' = toastIdCounter + 1
    /\ appEvent' = "addToast"
    /\ UNCHANGED <<app, tasks, session, db, nextRecipeId>>
    /\ UNCHANGED nonAppVars

AddToast ==
    /\ toastIdCounter < MaxToastId
    /\ \E message \in ToastMessages, type \in ToastTypes,
          title \in ToastTitles, duration \in ToastDurations :
           toasts' = addToast(toasts, toastIdCounter + 1, message,
                              ToastOptions(type, title, duration))
    /\ toastIdCounter' = toastIdCounter + 1
    /\ appEvent' = "addToast"
    /\ UNCHANGED <<app, tasks, session, db, nextRecipeId>>
    /\ UNCHANGED nonAppVars

\* When the page is opened: useEffect has called checkUser().
AppInit ==
    /\ app = AppMounted
    /\ tasks = OneTask(Task("checkUser", "getCurrentUser", NoCreds, NoRecipe,
                            FALSE, AppMounted))
    /\ session \in {NoUser, CurrentUser}
    /\ db = <<StoredRecipe>>
    /\ nextRecipeId = 2
    /\ appEvent = "mounted"
    /\ toasts = <<>>
    /\ toastIdCounter = 0

\* no App on the page
AppIdle ==
    /\ app = AppMounted
    /\ tasks = EmptyBag
    /\ session = NoUser
    /\ db = <<>>
    /\ nextRecipeId = 1
    /\ appEvent = "none"
    /\ toasts = <<>>
    /\ toastIdCounter = 0

(***************************************************************************)
(* Specifications.                                                         *)
(***************************************************************************)
InitRetry ==
    /\ RetryInit /\ isProduction = TRUE /\ LoggerConstructed /\ AppIdle
    /\ ClassifierIdle

NextRetry ==
    \/ RetryInvoke
    \/ OperationReturns
    \/ OperationThrows
    \/ RetryDelayElapsed

SpecRetry == InitRetry /\ [][NextRetry]_vars

\* Every invocation of the operation settles, and every timer fires.
SpecRetryFair == SpecRetry /\ WF_vars(NextRetry)

RetryIdle ==
    /\ rPc = "returned"
    /\ rStart = 0
    /\ rCurrentRetry = 0
    /\ rMaxRetries = DefaultMaxRetries
    /\ rCalls = 0
    /\ rOutcomes = <<>>
    /\ rDelays = <<>>
    /\ rResult = NoResult

\* The Logger from its construction, all its entries logged within one
\* millisecond.
InitLogger == LoggerInit /\ RetryIdle /\ AppIdle /\ ClassifierIdle

NextLogger ==
    \/ InitReturnsEarly
    \/ InitStarts
    \/ InitSessionFails
    \/ InitSessionArrives
    \/ InitStreamSettles
    \/ Cleanup
    \/ TimerFlush
    \/ AddLog
    \/ SendSettles

SpecLogger == InitLogger /\ [][NextLogger]_vars

\* The life cycle of the Logger: init() and cleanup() called in any order
\* and any number of times, several runs of init() suspended at once, while
\* a few entries are logged.
NextLoggerLifeCycle ==
    \/ InitReturnsEarly
    \/ InitStartsConcurrently
    \/ InitSessionFails
    \/ InitSessionArrives
    \/ InitStreamSettles
    \/ Cleanup
    \/ TimerFlush
    \/ AddLogLater
    \/ SendSettles

SpecLoggerLifeCycle == InitLogger /\ [][NextLoggerLifeCycle]_vars

\* An initialised Logger whose buffer holds a backlog of InitialBacklog
\* entries of one millisecond (SpecLogger reaches this state); from there
\* every entry is logged at a millisecond of its own.
Fillers(n) == [i \in 1..n |-> 0]

LoggerBacklog ==
    /\ isProduction = TRUE
    /\ client = "client"
    /\ logStreamName = "session"
    /\ sequenceToken \in {"null", "token"}
    /\ logBuffer = Fillers(InitialBacklog)
    /\ flushInterval = "interval"
    /\ intervals = <<FlushPeriodMs>>
    /\ isInitialized = TRUE
    /\ initPromise = "null"
    /\ awaitingSession = 0
    /\ awaitingStream = 0
    /\ inFlight = EmptyBag
    /\ now = 0

InitLoggerBacklog ==
    /\ LoggerBacklog
    /\ logEvent = LogEvent("backlog", NoLogs)
    /\ RetryIdle
    /\ AppIdle
    /\ ClassifierIdle

NextLoggerBacklog ==
    \/ InitReturnsEarly
    \/ InitStarts
    \/ InitSessionFails
    \/ InitSessionArrives
    \/ InitStreamSettles
    \/ Cleanup
    \/ TimerFlush
    \/ AddLogLater
    \/ SendSettles

SpecLoggerBacklog == InitLoggerBacklog /\ [][NextLoggerBacklog]_vars

\* isRetryableError and getUserFriendlyError, each called once.
InitClassifier ==
    /\ ClassifierInit
    /\ RetryIdle
    /\ isProduction = TRUE
    /\ LoggerConstructed
    /\ AppIdle

NextClassifier ==
    \/ IsRetryableErrorReturns
    \/ GetUserFriendlyErrorReturns

SpecClassifier == InitClassifier /\ [][NextClassifier]_vars

\* The App from the moment the page is opened.
InitApp ==
    /\ AppInit /\ RetryIdle /\ isProduction = TRUE /\ LoggerConstructed
    /\ ClassifierIdle

NextApp ==
    \/ setEmail
    \/ setPassword
    \/ handleSignIn
    \/ handleSignOut
    \/ handleRetry
    \/ Dismiss
    \/ handleEditRecipe
    \/ handleUpdateRecipe
    \/ handleCancelEdit
    \/ handleDeleteRecipe
    \/ ServerResponds
    \/ ResponseArrives
    \/ CallSettles
    \/ BackoffElapsed
    \/ ToastTimerFires

SpecApp == InitApp /\ [][NextApp]_vars

\* The handlers that set isLoading, each from a page on which its form is
\* filled in (SpecSignUp, SpecApp and SpecRecipes reach these pages) or from
\* the moment the page is opened.
SignedIn == [AppMounted EXCEPT !.user = CurrentUser,
                               !.recipes = <<StoredRecipe>>]

FilledPages ==
    { [AppMounted EXCEPT !.authMode = "signup", !.email = "e",
                         !.password = "p", !.confirmPassword = "p"],
      [AppMounted EXCEPT !.authMode = "signup", !.needsConfirmation = TRUE,
                         !.email = "e", !.confirmationCode = "c"],
      [AppMounted EXCEPT !.email = "e", !.password = "p"],
      [SignedIn EXCEPT !.showCreateForm = TRUE,
                       !.newRecipe = RecipeForm(<<"b">>, TheIngredients,
                                                TheDirections, NullPrepTime)],
      [SignedIn EXCEPT !.editingRecipe = StoredRecipe,
                       !.newRecipe = RecipeData(StoredRecipe)] }

InitLoading ==
    /\ \/ AppInit
       \/ /\ app \in FilledPages
          /\ tasks = EmptyBag
          /\ appEvent = "none"
          /\ session = app.user
          /\ db = <<StoredRecipe>>
          /\ nextRecipeId = 2
          /\ toasts = <<>>
          /\ toastIdCounter = 0
    /\ RetryIdle
    /\ ClassifierIdle
    /\ isProduction = TRUE
    /\ LoggerConstructed

NextLoading ==
    \/ handleSignUp
    \/ handleConfirmSignUp
    \/ handleSignIn
    \/ handleCreateRecipe
    \/ handleUpdateRecipe
    \/ handleDeleteRecipe
    \/ handleRetry
    \/ ServerResponds
    \/ ResponseArrives
    \/ CallSettles
    \/ BackoffElapsed

SpecLoading == InitLoading /\ [][NextLoading]_vars

\* Every backend call returns or fails, every answer reaches the page and
\* every backoff timer fires.
SpecLoadingFair ==
    /\ SpecLoading
    /\ WF_vars(ServerResponds)
    /\ WF_vars(ResponseArrives)
    /\ WF_vars(CallSettles)
    /\ WF_vars(BackoffElapsed)

\* A visitor without a session who stays in the authentication view: the
\* page is open and checkUser has found no user.
InitSignUp ==
    /\ app = AppMounted
    /\ tasks = EmptyBag
    /\ appEvent = "callSettles"
    /\ session = NoUser
    /\ db = <<StoredRecipe>>
    /\ nextRecipeId = 2
    /\ toasts = <<>>
    /\ toastIdCounter = 0
    /\ RetryIdle
    /\ ClassifierIdle
    /\ isProduction = TRUE
    /\ LoggerConstructed

NextSignUp ==
    \/ setAuthMode
    \/ setEmail
    \/ setPassword
    \/ setConfirmPassword
    \/ setConfirmationCode
    \/ handleSignUp
    \/ handleConfirmSignUp
    \/ BackToSignUp
    \/ handleRetry
    \/ Dismiss
    \/ CallSettles
    \/ BackoffElapsed
    \/ ToastTimerFires

SpecSignUp == InitSignUp /\ [][NextSignUp]_vars

\* A signed-in user whose recipes are loaded and who works with the search
\* box and the New Recipe form (SpecApp reaches this state).
InitRecipes ==
    /\ app = [AppMounted EXCEPT !.user = CurrentUser,
                                !.recipes = <<StoredRecipe>>]
    /\ tasks = EmptyBag
    /\ appEvent = "responseArrives"
    /\ session = CurrentUser
    /\ db = <<StoredRecipe>>
    /\ nextRecipeId = 2
    /\ toasts = <<>>
    /\ toastIdCounter = 0
    /\ RetryIdle
    /\ ClassifierIdle
    /\ isProduction = TRUE
    /\ LoggerConstructed

NextRecipes ==
    \/ setSearchTerm
    \/ ToggleCreateForm
    \/ setNewRecipe
    \/ handleCreateRecipe
    \/ handleDeleteRecipe
    \/ handleRetry
    \/ Dismiss
    \/ ServerResponds
    \/ ResponseArrives
    \/ CallSettles
    \/ BackoffElapsed
    \/ ToastTimerFires

SpecRecipes == InitRecipes /\ [][NextRecipes]_vars

\* Searching a loaded list: the list holds up to MaxSearched recipes under any
\* of the names, the user types search terms and opens and closes the edit
\* form on a recipe of the filtered list.
SearchedLists ==
    UNION { { [i \in 1..n |->
                  Recipe(i, RecipeForm(names[i], TheIngredients,
                                       TheDirections, NullPrepTime))] :
              names \in [1..n -> SearchedNames] } : n \in 0..MaxSearched }

InitSearch ==
    /\ \E list \in SearchedLists :
           /\ app = [AppMounted EXCEPT !.user = CurrentUser,
                                       !.recipes = list]
           /\ db = list
           /\ nextRecipeId = Len(list) + 1
    /\ tasks = EmptyBag
    /\ appEvent = "responseArrives"
    /\ session = CurrentUser
    /\ toasts = <<>>
    /\ toastIdCounter = 0
    /\ RetryIdle
    /\ ClassifierIdle
    /\ isProduction = TRUE
    /\ LoggerConstructed

NextSearch ==
    \/ setSearchTermLonger
    \/ handleEditRecipe
    \/ handleCancelEdit

SpecSearch == InitSearch /\ [][NextSearch]_vars

\* The controls that open and close the recipe form, on the list of a
\* signed-in user.
NextForms ==
    \/ ToggleCreateForm
    \/ setNewRecipe
    \/ handleCreateRecipe
    \/ handleEditRecipe
    \/ handleUpdateRecipe
    \/ handleCancelEdit
    \/ handleRetry
    \/ Dismiss
    \/ ServerResponds
    \/ ResponseArrives
    \/ CallSettles
    \/ BackoffElapsed
    \/ ToastTimerFires

SpecForms == InitRecipes /\ [][NextForms]_vars

\* The toast queue alone, fed by any caller of useToast.
InitToast ==
    /\ AppIdle
    /\ RetryIdle
    /\ ClassifierIdle
    /\ isProduction = TRUE
    /\ LoggerConstructed

NextToast ==
    \/ AddToast
    \/ ToastTimerFires
    \/ ToastClosed

SpecToast == InitToast /\ [][NextToast]_vars

\* A ToastItem is mounted for as long as its toast is in the list, and the
\* browser fires the timer it has set.
SpecToastFair ==
    SpecToast /\ \A id \in 1..MaxToastId : WF_vars(ToastTimerFiresFor(id))

(***************************************************************************)
(* Claims about retryOperation.                                            *)
(***************************************************************************)
RetryDone == rPc \in {"returned", "thrown"}

RetryDefaultArgs == rStart = 0 /\ rMaxRetries = DefaultMaxRetries

\* C1: called with its default arguments (currentRetry = 0, maxRetries = 3),
\* retryOperation invokes the operation at most 4 times whatever the
\* operation throws; and when every invocation settles (and every backoff
\* timer fires), every call of retryOperation ends, returning or throwing.
C1_AtMostFourAttemptsAndTerminates ==
    /\ [](RetryDefaultArgs => rCalls <= 4)
    /\ <>RetryDone

C1_Witness ==
    /\ RetryDefaultArgs
    /\ rCalls = 4
    /\ rPc = "thrown"
    /\ \A i \in 1..4 : ~rOutcomes[i].ok

ExpectedDelayMs(k) ==
    CASE k = 0 -> 1000
      [] k = 1 -> 2000
      [] k = 2 -> 4000
      [] OTHER -> 5000

\* C2: the i-th delay waited is the one of currentRetry = rStart + i - 1,
\* that is min(1000 * 2^k, 5000) ms: 1000, 2000, 4000 for the retries of a
\* default call; the delays never decrease from one retry to the next and
\* none exceeds 5000 ms, whatever currentRetry is.
C2_BackoffDelays ==
    /\ \A i \in 1..Len(rDelays) :
           /\ rDelays[i] = ExpectedDelayMs(rStart + i - 1)
           /\ rDelays[i] <= 5000
           /\ i > 1 => rDelays[i - 1] <= rDelays[i]
    /\ RetryDefaultArgs =>
           \E n \in 0..3 : rDelays = SubSeq(<<1000, 2000, 4000>>, 1, n)

C2_Witness == rDelays = <<1000, 2000, 4000, 5000>>

\* C3: only retryable errors are retried.  An invocation that returns, or
\* that throws an error isRetryableError rejects, is the last one: no delay
\* is waited after it and its value is returned, its error rethrown (so an
\* operation whose first invocation throws such an error is invoked exactly
\* once and no delay is waited at all).  When all attempts fail with
\* retryable errors, every allowed attempt was made and the error of the
\* last one is rethrown.
C3_OnlyRetryableRetried ==
    LET n == Len(rOutcomes)
    IN  /\ \A i \in 1..n :
               (rOutcomes[i].ok \/ ~isRetryableError(rOutcomes[i].error))
                   => /\ i = n
                      /\ rCalls = n
                      /\ Len(rDelays) = n - 1
                      /\ RetryDone
        /\ (n >= 1 /\ ~rOutcomes[1].ok /\ ~isRetryableError(rOutcomes[1].error))
               => /\ rCalls = 1
                  /\ rDelays = <<>>
                  /\ rResult = [error |-> rOutcomes[1].error, kind |-> "throw",
                                value |-> 0]
        /\ rPc = "thrown"
               => /\ n >= 1
                  /\ ~rOutcomes[n].ok
                  /\ rResult.kind = "throw"
                  /\ rResult.error = rOutcomes[n].error
                  /\ isRetryableError(rOutcomes[n].error)
                         => rCurrentRetry >= rMaxRetries
        /\ rPc = "returned"
               => /\ n >= 1
                  /\ rOutcomes[n].ok
                  /\ rResult.kind = "return"
                  /\ rResult.value = rOutcomes[n].value
        /\ ~RetryDone => rResult = NoResult

C3_Witness ==
    /\ rPc = "thrown"
    /\ rCalls = 2
    /\ isRetryableError(rOutcomes[1].error)
    /\ ~isRetryableError(rOutcomes[2].error)
    /\ rResult.error = rOutcomes[2].error
    /\ Len(rDelays) = 1

(***************************************************************************)
(* Claims about isRetryableError and getUserFriendlyError.                 *)
(***************************************************************************)
LowerCasedMarkers ==
    { <<"n","e","t","w","o","r","k">>,
      <<"t","i","m","e","o","u","t">>,
      <<"f","e","t","c","h">>,
      <<"c","o","n","n","e","c","t","i","o","n">>,
      <<"e","c","o","n","n","r","e","f","u","s","e","d">>,
      <<"e","t","i","m","e","d","o","u","t">>,
      <<"f","a","i","l","e","d"," ","t","o"," ","f","e","t","c","h">>,
      <<"n","e","t","w","o","r","k","e","r","r","o","r">> }

\* the message of the error, lower-cased, holds one of the markers
HoldsMarker(error) ==
    /\ ~error.isNull
    /\ error.hasMessage
    /\ \E marker \in LowerCasedMarkers :
           includes(toLowerCase(error.message), marker)

\* C13: isRetryableError(error) is true exactly when error is not null and
\* its message, lower-cased, contains one of network, timeout, fetch,
\* connection, econnrefused, etimedout, failed to fetch, networkerror; it is
\* false for a null error and for an error that has no message.
C13_RetryableExactlyOnMarker ==
    (cCall = "isRetryableError" /\ cPc = "returned") =>
        /\ cRetryable <=> HoldsMarker(cError)
        /\ (cError.isNull \/ ~cError.hasMessage) => ~cRetryable

\* a message that holds a marker in another case than the list's was found
\* retryable
C13_Witness ==
    /\ cCall = "isRetryableError" /\ cPc = "returned"
    /\ cError = ErrorWith(<<"d","e","n","i","e","d","F","E","T","C","H">>)
    /\ cRetryable

\* the text that is searched for exception names and shown by the fallback
MessageOf(error) ==
    IF error.hasMessage /\ error.message # <<>> THEN error.message
    ELSE <<"E","r","r","o","r">>

\* the k-th exception name of NotAuthorizedException, UserNotFoundException,
\* CodeMismatchException, ExpiredCodeException, UsernameExistsException,
\* LimitExceededException is in the message
Names(error, k) == includes(MessageOf(error), authErrorMessages[k][1])

C14_Expected(error, operation) ==
    IF error.isNull
    THEN FriendlyText("An unknown error occurred", "", <<>>)
    ELSE IF HoldsMarker(error)
    THEN FriendlyText(
             "Network error during ${operation}. Retrying automatically...",
             operation, <<>>)
    ELSE IF Names(error, 1)
    THEN FriendlyText("Invalid email or password. Please try again.",
                      "", <<>>)
    ELSE IF Names(error, 2)
    THEN FriendlyText("User not found. Please check your email or sign up.",
                      "", <<>>)
    ELSE IF Names(error, 3)
    THEN FriendlyText(
             "Invalid verification code. Please check and try again.",
             "", <<>>)
    ELSE IF Names(error, 4)
    THEN FriendlyText("Verification code expired. Please request a new one.",
                      "", <<>>)
    ELSE IF Names(error, 5)
    THEN FriendlyText("An account with this email already exists.", "", <<>>)
    ELSE IF Names(error, 6)
    THEN FriendlyText("Too many attempts. Please try again later.", "", <<>>)
    ELSE FriendlyText("Error during ${operation}: ${errorMsg}", operation,
                      MessageOf(error))

\* C14: getUserFriendlyError translates in a fixed precedence: no error
\* gives 'An unknown error occurred'; a retryable error gives the network
\* message of the operation, also when its message names an exception;
\* otherwise the first of NotAuthorizedException, UserNotFoundException,
\* CodeMismatchException, ExpiredCodeException, UsernameExistsException,
\* LimitExceededException that the message names gives its fixed message;
\* otherwise the result is 'Error during <operation>: <message>' (for an
\* error without a message, its String()).  The result is never empty.
C14_FriendlyErrorPrecedence ==
    (cCall = "getUserFriendlyError" /\ cPc = "returned") =>
        /\ cFriendly = C14_Expected(cError, cOperation)
        /\ cFriendly.text # ""
        /\ cFriendly # NoError

\* an error whose message names an exception and holds a network marker
\* was given the network message
C14_Witness ==
    /\ cCall = "getUserFriendlyError" /\ cPc = "returned"
    /\ cError = ErrorWith(authErrorMessages[1][1] \o <<"F","E","T","C","H">>)
    /\ cFriendly.text =
           "Network error during ${operation}. Retrying automatically..."
    /\ cFriendly.operation = cOperation

\* the other precedence of C14 happens too: of two exception names the one
\* that comes first in the list decides, wherever it is in the message
C14_FirstNameReached ==
    /\ cCall = "getUserFriendlyError" /\ cPc = "returned"
    /\ cError = ErrorWith(authErrorMessages[6][1] \o authErrorMessages[2][1])
    /\ cFriendly.text = "User not found. Please check your email or sign up."

(***************************************************************************)
(* Claims about the Logger.                                                *)
(***************************************************************************)
\* C4: the log buffer is bounded: in every reachable state logBuffer holds
\* at most MAX_BUFFER_SIZE = 100 entries.
C4_BufferBounded == Len(logBuffer) <= MAX_BUFFER_SIZE

Elements(seq) == {seq[i] : i \in 1..Len(seq)}

CountIn(seq, t) == Cardinality({i \in 1..Len(seq) : seq[i] = t})

RECURSIVE CountInBatches(_, _)
CountInBatches(batches, t) ==
    IF batches = EmptyBag THEN 0
    ELSE LET b == CHOOSE x \in BagToSet(batches) : TRUE
         IN  CountIn(b, t) + CountInBatches(batches (-) OneRequest(b), t)

\* An entry logged at a millisecond of its own is in one place at most:
\* the buffer or one outstanding request.
EntryHeldOnce ==
    \A t \in 1..now : CountIn(logBuffer, t) + CountInBatches(inFlight, t) <= 1

C5_SettleStep ==
    /\ logEvent'.name = "sendFailed" =>
           /\ BagIn(logEvent'.logs, inFlight)
           /\ inFlight' = inFlight (-) OneRequest(logEvent'.logs)
           /\ Len(logBuffer) < 100 => logBuffer' = logEvent'.logs \o logBuffer
           /\ Len(logBuffer) >= 100 => logBuffer' = logBuffer
    /\ logEvent'.name = "sendOk" =>
           /\ BagIn(logEvent'.logs, inFlight)
           /\ inFlight' = inFlight (-) OneRequest(logEvent'.logs)
           /\ logBuffer' = logBuffer
    /\ logEvent'.name \notin {"sendFailed", "addLog"} =>
           logBuffer' \in {logBuffer, <<>>}

\* C5: when a flush's send fails, its batch is put back at the front of
\* logBuffer, ahead of what the buffer holds by then (the entries added
\* while the send was in flight), if logBuffer holds fewer than 100 entries,
\* and is dropped, logBuffer unchanged, if it holds 100 or more.  When the
\* send succeeds the buffer is left as it is and the request is over: only
\* addLog and a failed send put entries into the buffer, and no entry is
\* held twice, so the entries of a batch that was sent never come back.
C5_FailedBatchBackAtFront == [][C5_SettleStep]_vars /\ []EntryHeldOnce

C5_Witness ==
    /\ logEvent.name = "sendFailed"
    /\ Len(logEvent.logs) >= 2
    /\ Len(logBuffer) > Len(logEvent.logs)
    /\ SubSeq(logBuffer, 1, Len(logEvent.logs)) = logEvent.logs
    /\ \A i \in Len(logEvent.logs) + 1..Len(logBuffer) :
           logBuffer[i] \notin Elements(logEvent.logs)

\* The other case of C5 happens too: a failed batch was dropped.
C5_DroppedBatchReached ==
    /\ logEvent.name = "sendFailed"
    /\ Len(logBuffer) >= 100
    /\ \E t \in Elements(logEvent.logs) : t \notin Elements(logBuffer)

\* C11: the only background worker is one flush timer: in every reachable
\* state, whatever the order of init(), cleanup() and further init() calls,
\* at most one setInterval timer is running, its period is 5000 ms and
\* this.flushInterval holds its handle; and no step adds a timer while one
\* is running.
C11_OneFlushInterval ==
    /\ [](/\ Len(intervals) <= 1
          /\ \A i \in 1..Len(intervals) : intervals[i] = 5000
          /\ (intervals # <<>>) <=> (flushInterval # "null"))
    /\ [][intervals # <<>> => Len(intervals') <= Len(intervals)]_vars

\* a run of init() has gone through startPeriodicFlush while the timer set
\* by another run was running
C11_Witness ==
    /\ logEvent.name = "initDoneAgain"
    /\ intervals = <<5000>>
    /\ isInitialized

\* a step of addLog, whatever it did
AddLogCalled == logEvent'.name \in {"addLog", "addLogIgnored"}

\* the entry of this call is the last one of the buffer, or of the batch
\* that the flush() of this call has sent
EntryAppended ==
    LET pushed == Append(logBuffer, now')
    IN  \/ logBuffer' = pushed /\ inFlight' = inFlight
        \/ logBuffer' = <<>> /\ inFlight' = inFlight (+) OneRequest(pushed)

LoggerUntouched ==
    UNCHANGED <<isProduction, client, logStreamName, sequenceToken, logBuffer,
                flushInterval, intervals, isInitialized, initPromise,
                awaitingSession, awaitingStream, inFlight>>

\* no request has gone to the auth service or to the log service
NothingContacted ==
    /\ awaitingSession = 0 /\ awaitingStream = 0 /\ inFlight = EmptyBag
    /\ client = "null" /\ initPromise = "null" /\ ~isInitialized
    /\ logBuffer = <<>> /\ intervals = <<>>

\* C12: addLog appends its entry to logBuffer exactly when the build is
\* production, isInitialized is true and logBuffer holds fewer than 100
\* entries; in every other case it leaves the Logger as it is and sends
\* nothing.  Outside production init() starts nothing: the auth service and
\* the log service are never contacted and no PutLogEvents request is sent.
C12_TelemetryOptional ==
    /\ [][AddLogCalled =>
             IF isProduction /\ isInitialized /\ Len(logBuffer) < 100
             THEN EntryAppended
             ELSE LoggerUntouched]_vars
    /\ [](~isProduction => NothingContacted)

\* addLog was called on a production Logger that is initialised and whose
\* buffer is full: nothing was added
C12_Witness ==
    /\ logEvent.name = "addLogIgnored"
    /\ isProduction /\ isInitialized
    /\ Len(logBuffer) >= 100

\* the other cases of C12 happen too: addLog outside production, init()
\* outside production
C12_DevelopmentReached ==
    /\ ~isProduction
    /\ logEvent.name \in {"addLogIgnored", "initReturned"}

\* C29: an initialised Logger can always ship: in every reachable state
\* isInitialized = true implies that client is non-null and logStreamName is
\* non-null.
C29_InitializedCanShip ==
    isInitialized => client # "null" /\ logStreamName # "null"

(***************************************************************************)
(* Claims about the App.                                                   *)
(***************************************************************************)
\* C6: whenever a call that a handler made through retryOperation (list,
\* create, update, delete, sign in, sign up, confirm) is outstanding, its
\* backoff waits included, isLoading is true.
C6_LoadingWhileCallOutstanding ==
    \A t \in BagToSet(tasks) : t.call \in RetriedCalls => app.isLoading

\* C7: every request of client.models.Recipe (list, create, update, delete)
\* went out while user was non-null.
C7_RecipeRequestsWhileSignedIn ==
    \A t \in BagToSet(tasks) : t.call \in RecipeCalls => t.issuedWithUser

\* C8: when the user declines the window.confirm of handleDeleteRecipe, no
\* backend call is made and nothing of the App's state changes: isLoading,
\* error, lastFailedOperation, recipes, editingRecipe and the form
\* (newRecipe, showCreateForm) included; so a Recipe.delete of
\* handleDeleteRecipe goes out only after confirm returned true.
C8_DeclinedDeleteChangesNothing ==
    [][appEvent' = "handleDeleteRecipe declined" =>
           /\ tasks' = tasks
           /\ app' = app
           /\ UNCHANGED <<session, db, nextRecipeId, toasts>>]_vars

\* the user declined the deletion of a recipe while editing it
C8_Witness ==
    /\ appEvent = "handleDeleteRecipe declined"
    /\ app.editingRecipe # NoRecipe
    /\ app.recipes # <<>>

NetworkErrorShown ==
    app.error.text =
        "Network error during ${operation}. Retrying automatically..."

\* C15: whenever error holds 'Network error during <operation>. Retrying
\* automatically...', a call made through retryOperation is outstanding or
\* waits out a backoff delay: retryOperation has not given up.
C15_NetworkMessageWhileRetrying ==
    NetworkErrorShown =>
        \E t \in BagToSet(tasks) :
            t.call \in RetriedCalls /\ t.pc \in {"sent", "answered", "backoff"}

\* the page shows what the backend holds
ListShownIsCurrent == app.recipes = db

\* C16: the displayed list follows the backend: when the page shows the
\* backend's current recipes (after the reload of a create, update or
\* delete), the answer of a Recipe.list() that arrives does not replace
\* them by others, that is by what the backend held before its last change.
C16_ListFollowsBackend ==
    [][(appEvent' = "responseArrives" /\ ListShownIsCurrent /\ db' = db)
           => app'.recipes = app.recipes]_vars

\* C17: each submission of the create form adds at most one recipe to the
\* backend, the requests that retryOperation and the manual Retry send
\* again for it included.
C17_CreateAddsAtMostOne ==
    /\ \A t \in BagToSet(tasks) : t.kind = "create" => t.applied <= 1
    /\ app.lastFailedOperation.kind = "create" =>
           app.lastFailedOperation.applied <= 1

Mutations == {"create", "update", "delete"}

\* the handler of task t ends in this step
HandlerEnds(t) == BagIn(t, tasks) /\ tasks' = tasks (-) OneTask(t)

\* In this step lastFailedOperation becomes the retry function of a create,
\* update or delete: then a handler of that operation, with the values of
\* the function, ends at the failure of its own request (it has not got as
\* far as its reload).
MutationKeptOnlyWhenFailed ==
    (/\ app'.lastFailedOperation # app.lastFailedOperation
     /\ app'.lastFailedOperation.kind \in Mutations)
        => \E t \in BagToSet(tasks) :
               /\ t.kind = app'.lastFailedOperation.kind
               /\ t.call = t.kind
               /\ t.recipe = app'.lastFailedOperation.recipe
               /\ HandlerEnds(t)
               /\ app'.error # NoError

\* In this step the reload of a create, update or delete that succeeded
\* fails for good: lastFailedOperation becomes loadRecipes.
FailedReloadKeepsLoadRecipes ==
    \A t \in BagToSet(tasks) :
        (/\ t.kind \in Mutations /\ t.call = "list"
         /\ t.pc = "answered" /\ ~t.response.ok
         /\ HandlerEnds(t))
            => /\ app'.lastFailedOperation =
                      Closure("loadRecipes", NoCreds, NoRecipe)
               /\ app'.error # NoError

\* Retry with loadRecipes in lastFailedOperation sends a Recipe.list() and
\* nothing else.
RetryOfLoadRecipesOnlyLists ==
    (appEvent' = "handleRetry" /\ app.lastFailedOperation.kind = "loadRecipes")
        => \E t \in BagToSet(tasks') :
               /\ tasks' = tasks (+) OneTask(t)
               /\ t.kind = "load" /\ t.call = "list"
               /\ UNCHANGED <<db, nextRecipeId>>

FailureReported ==
    /\ app'.error # app.error
    /\ app'.error \notin {NoError, PasswordsDoNotMatch}

\* C19: when a backend operation fails (sign up, confirmation, sign in,
\* list, create, update, delete; a manual Retry that fails again included),
\* error is set and lastFailedOperation is not null, so that Retry is
\* offered once isLoading is false.
C19_FailureOffersRetry ==
    [][FailureReported => app'.lastFailedOperation # NoOperation]_vars

\* the task that this step starts
StartsTask(t) == tasks' = tasks (+) OneTask(t)

\* A submission sends the values that the form, editingRecipe and the
\* displayed list hold when it is made.
SubmitCaptures ==
    /\ appEvent' = "handleCreateRecipe" =>
           \E t \in BagToSet(tasks') :
               /\ StartsTask(t)
               /\ t.kind = "create" /\ t.call = "create"
               /\ RecipeData(t.recipe) = app.newRecipe
    /\ appEvent' = "handleUpdateRecipe" =>
           \E t \in BagToSet(tasks') :
               /\ StartsTask(t)
               /\ t.kind = "update" /\ t.call = "update"
               /\ t.recipe = Recipe(app.editingRecipe.id, app.newRecipe)
    /\ appEvent' = "handleDeleteRecipe confirmed" =>
           \E t \in BagToSet(tasks') :
               /\ StartsTask(t)
               /\ t.kind = "delete" /\ t.call = "delete"
               /\ \E i \in 1..Len(app.recipes) :
                      /\ t.recipe.id = app.recipes[i].id
                      /\ t.recipe.name = app.recipes[i].name

\* A running create, update or delete keeps its values, whatever happens
\* to the form meanwhile.
TaskKeepsValues ==
    \A t \in BagToSet(tasks') :
        t.kind \in Mutations =>
            \/ \E held \in BagToSet(tasks) :
                   held.kind = t.kind /\ held.recipe = t.recipe
            \/ appEvent' \in {"handleCreateRecipe", "handleUpdateRecipe",
                               "handleDeleteRecipe confirmed", "handleRetry"}

\* Retry calls the stored function with the values it holds.
RetryUsesCaptured ==
    (appEvent' = "handleRetry" /\ app.lastFailedOperation.kind \in Mutations)
        => \E t \in BagToSet(tasks') :
               /\ StartsTask(t)
               /\ t.kind = app.lastFailedOperation.kind
               /\ t.call = t.kind
               /\ t.recipe = app.lastFailedOperation.recipe

C21_LoadingReleased == app.isLoading ~> ~app.isLoading

\* a delete went through and its reload has released the flag
C21_Witness ==
    /\ appEvent = "responseArrives"
    /\ ~app.isLoading
    /\ db = <<>>
    /\ app.recipes = <<>>
    /\ tasks = EmptyBag

\* C22: no recipes are held while signed out: in every reachable state of
\* the App, user = null implies recipes = [], for every interleaving of sign
\* in, the list load started by checkUser, and sign out.
C22_NoRecipesWhileSignedOut == app.user = NoUser => app.recipes = <<>>

\* C23: handleSignOut, when signOut succeeds, sets user to null and recipes
\* to [] and changes nothing else of the App's state (editingRecipe,
\* newRecipe, showCreateForm, searchTerm, error and lastFailedOperation keep
\* their values); when signOut fails it changes nothing: user and recipes
\* stay and no error and no toast is shown.
C23_SignOutFrame ==
    [][\A t \in BagToSet(tasks) :
           (t.kind = "signOut" /\ HandlerEnds(t))
               => /\ \E o \in ServerOutcomes(t) :
                         /\ session' = o.session
                         /\ app' = IF o.response.ok
                                   THEN [app EXCEPT !.user = NoUser,
                                                    !.recipes = <<>>]
                                   ELSE app
                  /\ UNCHANGED <<db, nextRecipeId, toastVars>>]_vars

\* the user signed out while editing a recipe, with an error in the form:
\* the form, the recipe being edited and the error are still there
C23_Witness ==
    /\ appEvent = "callSettles"
    /\ app.user = NoUser
    /\ session = NoUser
    /\ app.recipes = <<>>
    /\ app.editingRecipe = StoredRecipe
    /\ app.newRecipe = RecipeData(StoredRecipe)
    /\ app.error # NoError
    /\ app.lastFailedOperation.kind = "update"
    /\ tasks = EmptyBag

\* C24: handleSignUp with password different from confirmPassword makes no
\* signUp call, sets error to 'Passwords do not match', leaves isLoading
\* false, leaves needsConfirmation unchanged and leaves lastFailedOperation
\* null, so that no Retry is offered.
C24_MismatchMakesNoCall ==
    [][(appEvent' = "handleSignUp" /\ app.password # app.confirmPassword)
           => /\ UNCHANGED <<tasks, session>>
              /\ app'.error = PasswordsDoNotMatch
              /\ ~app'.isLoading
              /\ app'.needsConfirmation = app.needsConfirmation
              /\ app'.lastFailedOperation = NoOperation
              /\ ~RetryShown']_vars

\* the form was submitted with two different passwords
C24_Witness ==
    /\ appEvent = "handleSignUp"
    /\ app.password # app.confirmPassword
    /\ app.error = PasswordsDoNotMatch
    /\ ErrorShown
    /\ ~RetryShown
    /\ ~app.isLoading
    /\ ~app.needsConfirmation
    /\ tasks = EmptyBag

\* In this step needsConfirmation becomes true: then a handleSignUp ends
\* whose signUp call succeeded (its catch block has not run).
ConfirmationOpensAfterSignUp ==
    (~app.needsConfirmation /\ app'.needsConfirmation)
        => \E t \in BagToSet(tasks) :
               /\ t.kind = "signUp" /\ t.call = "signUp" /\ t.pc = "sent"
               /\ HandlerEnds(t)
               /\ \E o \in ServerOutcomes(t) : o.response.ok
               /\ app'.error = app.error
               /\ app'.lastFailedOperation = app.lastFailedOperation

\* a confirmSignUp call is sent, by the form, by Retry or by retryOperation,
\* only while needsConfirmation is true
ConfirmCalledWhenNeeded ==
    \A t \in BagToSet(tasks) :
        (t.call = "confirmSignUp" /\ t.pc = "sent") => app.needsConfirmation

\* the confirmSignUp call of t settles in this step: its handler ends or
\* retryOperation waits before it calls again
CallOfSettles(t) ==
    /\ appEvent' = "callSettles"
    /\ t.pc = "sent"
    /\ \/ HandlerEnds(t)
       \/ \E u \in BagToSet(tasks') :
              /\ u.pc = "backoff"
              /\ tasks' = (tasks (-) OneTask(t)) (+) OneTask(u)

\* A confirmation that succeeds (the toast is shown) opens the sign-in form
\* with email and code cleared; one that fails leaves the confirmation form.
ConfirmationSettles ==
    \A t \in BagToSet(tasks) :
        (t.kind = "confirm" /\ CallOfSettles(t))
            => IF toastIdCounter' # toastIdCounter
               THEN /\ HandlerEnds(t)
                    /\ ~app'.needsConfirmation
                    /\ app'.authMode = "signin"
                    /\ app'.email = ""
                    /\ app'.confirmationCode = ""
               ELSE /\ app'.needsConfirmation
                    /\ app'.authMode = app.authMode

C25_FailedReached ==
    /\ appEvent = "callSettles"
    /\ ConfirmFormShown
    /\ RetryShown
    /\ app.lastFailedOperation.kind = "confirm"

\* C26: the create form and the edit form are never open together: in every
\* state of the App reached through the UI controls, showCreateForm = true
\* and editingRecipe non-null do not both hold.
C26_OneFormOpen == ~(app.showCreateForm /\ app.editingRecipe # NoRecipe)

\* Edit was clicked on a recipe: the edit form is open with its values, the
\* create form closed
C26_Witness ==
    /\ appEvent = "handleEditRecipe"
    /\ app.editingRecipe # NoRecipe
    /\ app.newRecipe = RecipeData(app.editingRecipe)
    /\ ~app.showCreateForm
    /\ Len(app.recipes) = 2

\* the create form is open after an edit was cancelled
C26_CreateFormReached ==
    /\ appEvent = "toggleCreateForm"
    /\ app.showCreateForm
    /\ app.editingRecipe = NoRecipe
    /\ app.recipes # db

\* lower(term) is found in lower(name) at some position, letter by letter
NameContains(name, term) ==
    \E at \in 0..(Len(name) - Len(term)) :
        \A j \in 1..Len(term) :
            toLowerCaseChar(name[at + j]) = toLowerCaseChar(term[j])

\* the places in recipes of the recipes that match the search term
MatchingPlaces ==
    {i \in 1..Len(app.recipes) :
        NameContains(app.recipes[i].name, app.searchTerm)}

\* the k-th of the matching places, in the order of recipes
MatchingPlace(k) ==
    CHOOSE i \in MatchingPlaces :
        Cardinality({j \in MatchingPlaces : j <= i}) = k

\* C27: search returns exactly the recipes whose name contains searchTerm
\* ignoring case: filteredRecipes is the sub-sequence of recipes, in the
\* same order, of all recipes r with lower(searchTerm) a substring of
\* lower(r.name); an empty searchTerm yields all recipes.
C27_SearchFiltersByName ==
    /\ Len(filteredRecipes) = Cardinality(MatchingPlaces)
    /\ \A k \in 1..Len(filteredRecipes) :
           filteredRecipes[k] = app.recipes[MatchingPlace(k)]
    /\ app.searchTerm = <<>> => filteredRecipes = app.recipes

\* "AB" typed over the recipes named "a", "Ab", "ba": the second is shown
C27_Witness ==
    /\ appEvent = "setSearchTerm"
    /\ app.searchTerm = <<"A", "B">>
    /\ Len(app.recipes) = 3
    /\ app.recipes[1].name = <<"a">>
    /\ app.recipes[2].name = <<"A", "b">>
    /\ app.recipes[3].name = <<"b", "a">>
    /\ filteredRecipes = <<app.recipes[2]>>

\* "b" typed over "B", "a", "ba": the first and the third, in that order
C27_OrderKeptReached ==
    /\ app.searchTerm = <<"b">>
    /\ Len(app.recipes) = 3
    /\ app.recipes[1].name = <<"B">>
    /\ app.recipes[2].name = <<"a">>
    /\ app.recipes[3].name = <<"b", "a">>
    /\ filteredRecipes = <<app.recipes[1], app.recipes[3]>>

(***************************************************************************)
(* Claims about the toast queue.                                           *)
(***************************************************************************)
\* C10: every toast that is put in the toasts list is eventually out of it
\* again: its timer fires, or the user closes it before.
C10_EveryToastRemoved ==
    \A id \in 1..MaxToastId : (id \in ToastIds) ~> (id \notin ToastIds)

\* a toast with the default duration was removed by its timer
C10_Witness ==
    /\ appEvent = "toastTimerFires"
    /\ toastIdCounter = 1
    /\ toasts = <<>>

\* the toasts are in the order of their ids, which are all different and
\* were all given out by the counter
ToastsInIdOrder ==
    /\ \A i, j \in 1..Len(toasts) : i < j => toasts[i].id < toasts[j].id
    /\ \A i \in 1..Len(toasts) : toasts[i].id \in 1..toastIdCounter

\* a step that gives out an id: the id is greater than the counter, which
\* is the last id given out, and the toast goes to the end of the list
IdGivenOutIsNew ==
    toastIdCounter' # toastIdCounter
        => /\ toastIdCounter' > toastIdCounter
           /\ Len(toasts') = Len(toasts) + 1
           /\ SubSeq(toasts', 1, Len(toasts)) = toasts
           /\ toasts'[Len(toasts')].id = toastIdCounter'
           /\ \A i \in 1..Len(toasts) :
                  toasts[i].id < toasts'[Len(toasts')].id

\* C28: toast ids are unique and increasing: every addToast call returns an
\* id strictly greater than all ids returned before; in every reachable
\* state the toasts list has no two entries with the same id and is ordered
\* by increasing id (creation order).
C28_ToastIdsIncrease == []ToastsInIdOrder /\ [][IdGivenOutIsNew]_vars

\* the first toast has gone and a second was added: its id is 2, not its
\* place in the list
C28_Witness ==
    /\ appEvent = "addToast"
    /\ toastIdCounter = 2
    /\ Len(toasts) = 1
    /\ toasts[1].id = 2

\* two toasts on the page, in the order they were added
C28_TwoToastsReached ==
    /\ appEvent = "addToast"
    /\ Len(toasts) = 2
    /\ toasts[1].id = 1
    /\ toasts[2].id = 2

============================================================================
